---- MODULE Spec2Model ----
(***************************************************************************)
(* Macro Stress Map: the daily pipeline orchestrator (lib/cron/update.ts), *)
(* the scoring engine (lib/cron/compute.ts) and the math kernel's          *)
(* clamp-normalize (rolling window utilities).                             *)
(*                                                                         *)
(* Numbers.  The program computes in IEEE doubles; the model computes in   *)
(* exact rationals over integers.  Each metric is held in a fixed unit     *)
(* (normalization is invariant under the unit), canonical weights are held *)
(* in hundredths (0.25 -> 25) and a stress score in hundredths of a point  *)
(* (49.1 -> 4910), so that "one decimal digit" is a property a score can   *)
(* fail to have.  A nullable number is Null, NaN or Num(v).                *)
(***************************************************************************)
EXTENDS Integers, Sequences, FiniteSets, TLC

VARIABLES
    \* the store
    pipeline_log,      \* run log: sequence of rows, in insertion order
    metrics_daily,     \* (country, date) -> row or NoRow
    normalization_params, \* country -> metric -> param or NoParam
    \* the clock and the invocations of runDailyUpdate
    day,               \* current UTC date
    runs,              \* invocation -> its locals and position
    faults,            \* failures of adapters and of the store so far
    budget,            \* failures the environment may produce in a behaviour
    \* one call of the scoring engine and of clamp-normalize
    sc_pc, sc_metrics, sc_params, sc_result, sc_norm,
    \* the read API
    api_order,         \* the countries, in the order the store returns them
    api_resp,          \* the answer to the last request
    \* the normalization builders
    nb_history,        \* (country, column) -> the stored non-null values, by date
    nb_exit            \* the builder runs made, each with how it ended

orchVars == <<pipeline_log, metrics_daily, normalization_params, day, runs, faults, budget>>
scoreVars == <<sc_pc, sc_metrics, sc_params, sc_result, sc_norm>>
apiVars == <<api_order, api_resp>>
buildVars == <<nb_history, nb_exit>>
vars == <<pipeline_log, metrics_daily, normalization_params, day, runs, faults, budget,
          sc_pc, sc_metrics, sc_params, sc_result, sc_norm,
          api_order, api_resp, nb_history, nb_exit>>

\* ------------------------------------------------------------------ values
Null == [t |-> "null"]
NaN == [t |-> "NaN"]
Num(v) == [t |-> "num", v |-> v]
IsNum(x) == x.t = "num"

Frac(n, d) == [num |-> n, den |-> d]

RECURSIVE Gcd(_, _)
Gcd(a, b) == IF b = 0 THEN a ELSE Gcd(b, a % b)

Abs(x) == IF x < 0 THEN -x ELSE x

\* a fraction with a positive denominator, in lowest terms
Reduce(f) ==
    LET g == Gcd(Abs(f.num), Abs(f.den))
        s == IF f.den < 0 THEN -1 ELSE 1
    IN  Frac(s * (f.num \div g), s * (f.den \div g))

FracAdd(a, b) == Reduce(Frac(a.num * b.den + b.num * a.den, a.den * b.den))
FracMul(a, b) == Reduce(Frac(a.num * b.num, a.den * b.den))

\* mutant: Math.round(x), the tenths lost
RoundTenthsWhole(x) == 10 * ((2 * x.num + x.den) \div (2 * x.den))

\* Math.round(x * 10) of the rational x (Math.round rounds half up); Round1
\* is the score in hundredths
RoundTenths(x) == (2 * 10 * x.num + x.den) \div (2 * x.den)
Round1(x) == 10 * RoundTenths(x)

\* ------------------------------------------------------- scoring engine
MetricName ==
    <<"fx_vol", "inflation", "risk_spread", "crypto_ratio", "reserves_change",
      "stablecoin_premium">>

MetricNames == {MetricName[i] : i \in 1..Len(MetricName)}

\* canonical weights, in hundredths
WEIGHTS ==
    [fx_vol |-> 25, inflation |-> 20, risk_spread |-> 20, crypto_ratio |-> 10,
     reserves_change |-> 10, stablecoin_premium |-> 15]

NoParam == [t |-> "none"]
NormParam(lo, hi) == [t |-> "param", min_val |-> lo, max_val |-> hi]

Clamp01(raw) ==
    IF raw.num <= 0 THEN Frac(0, 1)
    ELSE IF raw.num >= raw.den THEN Frac(1, 1)
    ELSE raw

\* mutant: the clamp is left out
normalizeScoreNoClamp(value, min_val, max_val) ==
    IF max_val = min_val THEN Frac(1, 2)
    ELSE Reduce(Frac(value - min_val, max_val - min_val))

normalizeScore(value, min_val, max_val) ==
    IF max_val = min_val THEN Frac(1, 2)
    ELSE Clamp01(Reduce(Frac(value - min_val, max_val - min_val)))

\* the math kernel's clamp-normalize
normalizeMinMax(value, min, max) ==
    IF max = min THEN Frac(0, 1)
    ELSE Clamp01(Reduce(Frac(value - min, max - min)))

\* Step 1: a metric is missing when its value is null or it has no param
IsMissing(metrics, paramMap, m) ==
    metrics[m] = Null \/ paramMap[m] = NoParam

MissingOf(metrics, paramMap) ==
    SelectSeq(MetricName, LAMBDA m : IsMissing(metrics, paramMap, m))

NormMissingOf(metrics, paramMap) ==
    {m \in MetricNames : metrics[m] # Null /\ paramMap[m] = NoParam}

AvailableOf(metrics, paramMap) ==
    SelectSeq(MetricName, LAMBDA m : ~IsMissing(metrics, paramMap, m))

\* mutant: the available weight is the whole canonical weight
SumWeightsAll(ms) == 100

RECURSIVE SumWeights(_)
SumWeights(ms) ==
    IF ms = <<>> THEN 0 ELSE WEIGHTS[Head(ms)] + SumWeights(Tail(ms))

\* adjustedWeight = c.weight / availableWeight
adjustedWeight(m, availableWeight) == Reduce(Frac(WEIGHTS[m], availableWeight))

\* mutant: the canonical weights are applied without redistribution
RECURSIVE WeightedSumCanonical(_, _, _, _)
WeightedSumCanonical(ms, metrics, paramMap, availableWeight) ==
    IF ms = <<>> THEN Frac(0, 1)
    ELSE LET m == Head(ms)
             p == paramMap[m]
             n == normalizeScore(metrics[m].v, p.min_val, p.max_val)
         IN  FracAdd(FracMul(Frac(WEIGHTS[m], 100), n),
                     WeightedSumCanonical(Tail(ms), metrics, paramMap, availableWeight))

\* Step 4: sum of (weight / availableWeight) * normalized over the available
\* metrics whose value is a number
RECURSIVE WeightedSum(_, _, _, _)
WeightedSum(ms, metrics, paramMap, availableWeight) ==
    IF ms = <<>> THEN Frac(0, 1)
    ELSE LET m == Head(ms)
             p == paramMap[m]
             n == normalizeScore(metrics[m].v, p.min_val, p.max_val)
         IN  FracAdd(FracMul(adjustedWeight(m, availableWeight), n),
                     WeightedSum(Tail(ms), metrics, paramMap, availableWeight))

\* mutant: low confidence at <= 0.5
LowConfidenceLeq(availableWeight) == availableWeight <= 50

LowConfidence(availableWeight) == availableWeight < 50

\* a flags bag is a function over the keys that are present
NoFlags == <<>>
HasFlag(flags, k) == k \in DOMAIN flags
FlagIf(cond, k, v) == IF cond THEN k :> v ELSE NoFlags

NormMissingKey ==
    [fx_vol |-> "fx_vol_norm_missing", inflation |-> "inflation_norm_missing",
     risk_spread |-> "risk_spread_norm_missing",
     crypto_ratio |-> "crypto_ratio_norm_missing",
     reserves_change |-> "reserves_change_norm_missing",
     stablecoin_premium |-> "stablecoin_premium_norm_missing"]

NormMissingFlags(metrics, paramMap) ==
    [k \in {NormMissingKey[m] : m \in NormMissingOf(metrics, paramMap)} |-> TRUE]

\* Step 5: the flags
EngineFlags(metrics, paramMap, availableWeight) ==
    LET missing == MissingOf(metrics, paramMap)
    IN  FlagIf(Len(missing) > 0, "partial", TRUE)
        @@ FlagIf(Len(missing) > 0, "missing", missing)
        @@ FlagIf(LowConfidence(availableWeight), "low_confidence", TRUE)
        @@ NormMissingFlags(metrics, paramMap)

\* a NaN value is not null: it is normalized (to NaN) and the sum is NaN
StressScoreOf(metrics, paramMap) ==
    LET available == AvailableOf(metrics, paramMap)
        availableWeight == SumWeights(available)
    IN  IF \E i \in 1..Len(available) : metrics[available[i]] = NaN
        THEN NaN
        ELSE Num(Round1(FracMul(Frac(100, 1),
                 WeightedSum(available, metrics, paramMap, availableWeight))))

\* mutant: with no metric available the engine returns a score of 0
computeStressScoreZero(metrics, paramMap) ==
    [t |-> "result", stress_score |-> Num(0), available_weight |-> 0,
     data_flags |-> EngineFlags(metrics, paramMap, 0)]

computeStressScore(metrics, paramMap) ==
    LET available == AvailableOf(metrics, paramMap)
        availableWeight == SumWeights(available)
    IN  IF Len(available) = 0 THEN Null
        ELSE [t |-> "result",
              stress_score |-> StressScoreOf(metrics, paramMap),
              available_weight |-> availableWeight,
              data_flags |-> EngineFlags(metrics, paramMap, availableWeight)]


\* ------------------------------------------------------------ the store
\* the registry, in the order the store returns it; AR has the stablecoin
\* premium and no FRED series, BR has a FRED series
countries == <<[id |-> 1, iso2 |-> "AR"], [id |-> 2, iso2 |-> "BR"]>>
CountryIds == {countries[i].id : i \in 1..Len(countries)}
FRED_SOVEREIGN_SERIES == {"BR"}

MaxDay == 2            \* run days are 1..MaxDay; day 1 is the 1st of a month
MaxRuns == 3           \* invocations of runDailyUpdate
SpecRuns == 2          \* invocations under Spec
MaxFaults == 2         \* adapter and store failures in one behaviour
OverlapFaults == 1     \* the same under SpecOverlap
HistDays == 2          \* backfilled days before day 1: 1 - HistDays .. 0
OldDate == 1 - 90      \* a backfilled day inside the 80..100-day window
Dates == {OldDate} \cup ((1 - HistDays)..MaxDay)
Runs == 1..MaxRuns

NoRow == [t |-> "norow"]

NumColumns ==
    {"fx_close", "inflation_yoy", "sovereign_yield", "us_10y", "reserves_level",
     "stablecoin_premium", "fx_vol", "inflation", "risk_spread", "crypto_ratio",
     "reserves_change", "stress_score"}
Columns == NumColumns \cup {"data_flags"}

\* column defaults of an inserted row
DefaultRow == [col \in Columns |-> IF col = "data_flags" THEN NoFlags ELSE Null]

\* JSON.stringify of the request body turns NaN into null
ToJson(v) == IF v = NaN THEN Null ELSE v

\* upsert(row, onConflict country_id,date): the supplied columns are written,
\* the others keep their stored value (or their default on insert)
UpsertInto(table, country_id, date, row) ==
    LET old == IF table[country_id, date] = NoRow THEN DefaultRow
               ELSE table[country_id, date]
    IN  [table EXCEPT ![country_id, date] =
            [col \in Columns |->
                IF col \in DOMAIN row THEN ToJson(row[col]) ELSE old[col]]]

\* .eq(country_id).not(col, is, null).order(date desc): the dates, newest first
RECURSIVE DatesDesc(_)
DatesDesc(ds) ==
    IF ds = {} THEN <<>>
    ELSE LET d == CHOOSE x \in ds : \A y \in ds : y <= x
         IN  <<d>> \o DatesDesc(ds \ {d})

NonNullDates(table, country_id, col) ==
    {d \in Dates : table[country_id, d] # NoRow /\ table[country_id, d][col] # Null}

\* ... .limit(1).maybeSingle(): the newest row with col not null, or NoRow
LastRowWith(table, country_id, col) ==
    LET ds == NonNullDates(table, country_id, col)
    IN  IF ds = {} THEN NoRow
        ELSE table[country_id, CHOOSE x \in ds : \A y \in ds : y <= x]

\* row.data?.col ?? null
ColOf(row, col) == IF row = NoRow THEN Null ELSE row[col]

\* mutant: the status filter is left out of the guard's query
GuardRowsAnyStatus(log, run_date) ==
    {i \in 1..Len(log) : log[i].run_date = run_date}

\* .eq(run_date).eq(status, success): the matching pipeline_log rows, as
\* positions
GuardRows(log, run_date) ==
    {i \in 1..Len(log) : log[i].run_date = run_date /\ log[i].status = "success"}

\* .maybeSingle(): data is the row when exactly one row matches and null when
\* none does; when several match the result is an error and data is null.
\* TRUE when data is a row.
MaybeSingle(rows) == Cardinality(rows) = 1


\* ------------------------------------------------- what the adapters return
FxCloses == {6}                    \* fetchFxDay: close
FxVolValues == {Num(200)}          \* a std-dev of log returns, in thousandths
CryptoRatios == {25}               \* fetchCryptoDay: crypto_ratio, hundredths
Us10yValues == {4}                 \* fetchUs10yDay
InflationValues == {30}            \* fetchInflationLatest: value, tenths
SovereignYields == {10}            \* fetchSovereignFred / fetchSovereignImf
ReservesLevels == {200}            \* fetchReservesImf: level
StablecoinPremia == {10}           \* fetchStablecoinPremium: premium

OrNull(S) == {Null} \cup {Num(v) : v \in S}

\* the FX source's calendar: odd days are trading days, so on an even day the
\* latest trading day is the day before
LatestTradingDay(d) == IF d % 2 = 1 THEN d ELSE d - 1

\* fetchFxDay: null, or the latest trading day and its close.  close is
\* parseFloat of the source's field and is not validated: a malformed field
\* gives NaN
FxDayResults(d) ==
    {Null} \cup {[t |-> "fx", date |-> LatestTradingDay(d), close |-> c] : c \in {Num(x) : x \in FxCloses} \cup {NaN}}

FxLimit == 30

\* 5c: the dates of the newest FxLimit rows with fx_close not null, newest
\* first; the query has no condition on the date
RecentFxDates(table, country_id) ==
    LET ds == DatesDesc(NonNullDates(table, country_id, "fx_close"))
        n == IF Len(ds) < FxLimit THEN Len(ds) ELSE FxLimit
    IN  SubSeq(ds, 1, n)

\* 5c: the closes of those rows
RecentFx(table, country_id) ==
    LET ds == RecentFxDates(table, country_id)
    IN  [i \in 1..Len(ds) |-> table[country_id, ds[i]]["fx_close"]]

\* 5c: the sample std-dev of the log returns of closes.  One log return
\* gives variance 0 / (1 - 1) = NaN, and so does a NaN close; equal closes
\* give 0; any other value is a positive real the model draws (vol)
FxVolOf(closes, vol) ==
    IF Len(closes) < 2 THEN Null
    ELSE IF Len(closes) = 2 THEN NaN
    ELSE IF \E i \in 1..Len(closes) : closes[i] = NaN THEN NaN
    ELSE IF \A i \in 1..Len(closes) : closes[i] = closes[1] THEN Num(0)
    ELSE vol

\* rollingLogReturnStdDev(closes, window), closes in ascending date order:
\* whether the entry of the last position is null.  Log return j (from 0) is
\* null for j = 0 and when one of its two closes is not positive; position i
\* is null when i < window or when fewer than 80% of the log returns
\* i - window .. i - 1 are non-null
rollingLogReturnStdDevIsNull(closes, window) ==
    LET i == Len(closes) - 1
        hasReturn(j) == j >= 1 /\ closes[j + 1].v > 0 /\ closes[j].v > 0
    IN  \/ i < window
        \/ 10 * Cardinality({j \in (i - window)..(i - 1) : hasReturn(j)}) < 8 * window

\* getPriorDate(days)
getPriorDate(today, days) == today - days

\* 5d: the newest reserves_level dated 80 to 100 days before today
OldReserves(table, country_id, today) ==
    LET ds == {d \in NonNullDates(table, country_id, "reserves_level") :
                  d >= getPriorDate(today, 100) /\ d <= getPriorDate(today, 80)}
    IN  IF ds = {} THEN Null
        ELSE table[country_id, CHOOSE x \in ds : \A y \in ds : y <= x]["reserves_level"]

\* ((level - oldLevel) / oldLevel) * 100; the levels of the model divide
PctChange(level, oldLevel) == ((level - oldLevel) * 100) \div oldLevel

\* mutant: the orchestrator's flags win over the engine's
MergeFlagsCountryWins(countryFlags, engineFlags) == countryFlags @@ engineFlags

\* { ...countryFlags, ...engineFlags }
MergeFlags(countryFlags, engineFlags) == engineFlags @@ countryFlags

\* the store reads of one country's step
LoopReads ==
    {"lastInflRow", "lastSovRow", "lastResRow", "lastStablecoinRow", "recentFx",
     "oldReserves"}

\* the reads a step makes: recentFx only with an FX result, oldReserves only
\* on a monthly run whose reserves fetch succeeded
ReadsMade(fx, isMonthly, res) ==
    {"lastInflRow", "lastSovRow", "lastResRow", "lastStablecoinRow"}
    \cup (IF fx # Null THEN {"recentFx"} ELSE {})
    \cup (IF isMonthly /\ res # Null THEN {"oldReserves"} ELSE {})

\* fetchStablecoinPremium calls its provider only for AR with a close > 0
StablecoinCalled(iso2, fx) == iso2 = "AR" /\ fx # Null /\ IsNum(fx.close)

\* steps 5a to 5e for one country: the values the run holds, the missing list,
\* the adapter-failure flags and the errors collected.  fx, scr, infl, sov
\* and res are what the adapters return; failed holds the store reads that
\* failed: only data is read off their answers, so a failed read is taken
\* like an empty one and nothing is recorded.
CountryMetricsOf(table, d, isMonthly, cryptoDay, us10y, country, fx, scr, vol, infl, sov, res, failed) ==
    LET iso2 == country.iso2
        cid == country.id
        fxOk == fx # Null
        \* 5b
        lastInflRow == IF "lastInflRow" \in failed THEN NoRow
                       ELSE LastRowWith(table, cid, "inflation_yoy")
        lastSovRow == IF "lastSovRow" \in failed THEN NoRow
                      ELSE LastRowWith(table, cid, "risk_spread")
        lastResRow == IF "lastResRow" \in failed THEN NoRow
                      ELSE LastRowWith(table, cid, "reserves_level")
        lastStablecoinRow == IF "lastStablecoinRow" \in failed THEN NoRow
                             ELSE LastRowWith(table, cid, "stablecoin_premium")
        recentFx == IF "recentFx" \in failed THEN <<>> ELSE RecentFx(table, cid)
        \* 5b2
        lastPremium == ColOf(lastStablecoinRow, "stablecoin_premium")
        scResult == IF StablecoinCalled(iso2, fx) THEN scr ELSE Null
        stablecoin_premium ==
            IF fxOk /\ scResult # Null THEN Num(scResult.premium) ELSE lastPremium
        scFlags ==
            IF ~fxOk THEN NoFlags
            ELSE IF scResult # Null
                 THEN "stablecoin_sources" :> scResult.source_count
            ELSE IF iso2 = "AR" /\ lastPremium # Null
                 THEN "stablecoin_premium" :> "forward_filled"
            ELSE IF iso2 = "AR" THEN "stablecoin_premium" :> "fetch_failed"
            ELSE NoFlags
        scMissing ==
            IF fxOk /\ scResult = Null /\ iso2 = "AR" /\ lastPremium = Null
            THEN <<"stablecoin_premium">> ELSE <<>>
        \* 5c
        fx_vol == IF fxOk THEN FxVolOf(<<fx.close>> \o recentFx, vol) ELSE Null
        \* 5d
        prevYoy == ColOf(lastInflRow, "inflation_yoy")
        inflOk == isMonthly /\ infl # Null
        inflation_yoy == IF inflOk THEN infl ELSE prevYoy
        inflation ==
            IF inflOk
            THEN (IF prevYoy # Null THEN Num(infl.v - prevYoy.v) ELSE Null)
            ELSE ColOf(lastInflRow, "inflation")
        inflMissing == IF isMonthly /\ infl = Null THEN <<"inflation">> ELSE <<>>
        inflFlags == FlagIf(isMonthly /\ infl = Null, "inflation_source", "fetch_failed")
        hasFred == iso2 \in FRED_SOVEREIGN_SERIES
        newYield == IF isMonthly THEN sov ELSE Null
        sovFailedImf == isMonthly /\ ~hasFred /\ sov = Null
        sovMissing == IF sovFailedImf THEN <<"risk_spread">> ELSE <<>>
        sovFlags == FlagIf(sovFailedImf, "sovereign_source", "imf_unavailable")
        sovereign_yield == IF newYield # Null THEN newYield
                           ELSE ColOf(lastSovRow, "sovereign_yield")
        risk_spread ==
            IF newYield # Null
            THEN (IF us10y # Null THEN Num(newYield.v - us10y.v) ELSE Null)
            ELSE ColOf(lastSovRow, "risk_spread")
        resOk == isMonthly /\ res # Null
        oldLevel == IF "oldReserves" \in failed THEN Null
                    ELSE OldReserves(table, cid, d)
        reserves_level == IF resOk THEN res ELSE ColOf(lastResRow, "reserves_level")
        reserves_change ==
            IF resOk
            THEN (IF oldLevel # Null /\ oldLevel.v # 0
                  THEN Num(PctChange(res.v, oldLevel.v)) ELSE Null)
            ELSE ColOf(lastResRow, "reserves_change")
        resMissing == IF isMonthly /\ res = Null THEN <<"reserves_change">> ELSE <<>>
        resFlags == FlagIf(isMonthly /\ res = Null, "reserves_source", "imf_unavailable")
        \* 5a .. 5d: the missing list, in push order
        missing == (IF fxOk THEN <<>> ELSE <<"fx_vol">>) \o scMissing
                   \o inflMissing \o sovMissing \o resMissing
        \* 5e
        metrics ==
            [fx_vol |-> fx_vol, inflation |-> inflation, risk_spread |-> risk_spread,
             crypto_ratio |-> cryptoDay, reserves_change |-> reserves_change,
             stablecoin_premium |-> stablecoin_premium]
        countryFlags == scFlags @@ inflFlags @@ sovFlags @@ resFlags
    IN  [t |-> "metrics",
         country_id |-> cid,
         iso2 |-> iso2,
         fxDay |-> fx,
         fx_vol |-> fx_vol,
         inflation_yoy |-> inflation_yoy,
         inflation |-> inflation,
         sovereign_yield |-> sovereign_yield,
         risk_spread |-> risk_spread,
         reserves_level |-> reserves_level,
         reserves_change |-> reserves_change,
         stablecoin_premium |-> stablecoin_premium,
         cryptoDay |-> cryptoDay,
         us10y |-> us10y,
         metrics |-> metrics,
         missing |-> missing,
         countryFlags |-> countryFlags,
         errors |-> IF fxOk THEN <<>> ELSE <<<<iso2, "fx fetch failed">>>>]

\* 5f: the flags persisted: the adapter-failure flags, then the engine's
FinalFlagsOf(cm, stressResult) ==
    MergeFlags(FlagIf(Len(cm.missing) > 0, "partial", TRUE)
               @@ FlagIf(Len(cm.missing) > 0, "missing", cm.missing)
               @@ cm.countryFlags,
               IF stressResult = Null THEN NoFlags ELSE stressResult.data_flags)

\* the row's date: the FX source's date, or the run date when FX failed
UpsertDateOf(cm, run_date) == IF cm.fxDay # Null THEN cm.fxDay.date ELSE run_date

\* the value the step holds for each raw and derived column when it builds
\* upsertRow
HeldOf(cm) ==
    [fx_close |-> IF cm.fxDay # Null THEN cm.fxDay.close ELSE Null,
     inflation_yoy |-> cm.inflation_yoy,
     sovereign_yield |-> cm.sovereign_yield,
     us_10y |-> cm.us10y,
     reserves_level |-> cm.reserves_level,
     stablecoin_premium |-> cm.stablecoin_premium,
     fx_vol |-> cm.fx_vol,
     inflation |-> cm.inflation,
     risk_spread |-> cm.risk_spread,
     crypto_ratio |-> cm.cryptoDay,
     reserves_change |-> cm.reserves_change]

\* 5g: the columns of upsertRow (country_id and date are its key)
UpsertRowOf(cm, stressResult) ==
    FlagIf(cm.fxDay # Null, "fx_close",
           IF cm.fxDay # Null THEN cm.fxDay.close ELSE Null)
    @@ FlagIf(cm.inflation_yoy # Null, "inflation_yoy", cm.inflation_yoy)
    @@ FlagIf(cm.sovereign_yield # Null, "sovereign_yield", cm.sovereign_yield)
    @@ FlagIf(cm.us10y # Null, "us_10y", cm.us10y)
    @@ FlagIf(cm.reserves_level # Null, "reserves_level", cm.reserves_level)
    @@ FlagIf(cm.stablecoin_premium # Null, "stablecoin_premium", cm.stablecoin_premium)
    @@ FlagIf(cm.fx_vol # Null, "fx_vol", cm.fx_vol)
    @@ FlagIf(cm.inflation # Null, "inflation", cm.inflation)
    @@ FlagIf(cm.risk_spread # Null, "risk_spread", cm.risk_spread)
    @@ FlagIf(cm.cryptoDay # Null, "crypto_ratio", cm.cryptoDay)
    @@ FlagIf(cm.reserves_change # Null, "reserves_change", cm.reserves_change)
    @@ FlagIf(stressResult # Null, "stress_score",
              IF stressResult # Null THEN stressResult.stress_score ELSE Null)
    @@ ("data_flags" :> FinalFlagsOf(cm, stressResult))

\* ---------------------------------------------------- initial store states
NormalParams ==
    [fx_vol |-> NormParam(10, 40), inflation |-> NormParam(0, 20),
     risk_spread |-> NormParam(0, 10), crypto_ratio |-> NormParam(10, 50),
     reserves_change |-> NormParam(-10, 10), stablecoin_premium |-> NormParam(0, 40)]

\* stale params: min_val = max_val, min_val > max_val, or no row at all
DegenerateParams ==
    [fx_vol |-> NormParam(20, 20), inflation |-> NormParam(20, 0),
     risk_spread |-> NoParam, crypto_ratio |-> NormParam(25, 25),
     reserves_change |-> NormParam(10, -10), stablecoin_premium |-> NoParam]

NormTables == {NormalParams, DegenerateParams}

\* a row as the backfill scripts leave it: raw and derived values, no score
BackfillRow(country_id, d) ==
    [DefaultRow EXCEPT
        !["fx_close"] = Num(5),
        !["fx_vol"] = Num(30),
        !["inflation_yoy"] = Num(20),
        !["inflation"] = Num(5),
        !["sovereign_yield"] = Num(8),
        !["us_10y"] = Num(3),
        !["risk_spread"] = Num(5),
        !["reserves_level"] = IF d = OldDate THEN Num(160) ELSE Num(180),
        !["reserves_change"] = Num(-5),
        !["crypto_ratio"] = Num(30),
        !["stablecoin_premium"] = IF country_id = 1 THEN Num(8) ELSE Null]

EmptyStore == [k \in CountryIds \X Dates |-> NoRow]
BackfilledStore ==
    [k \in CountryIds \X Dates |-> IF k[2] < 1 THEN BackfillRow(k[1], k[2]) ELSE NoRow]

\* --------------------------------------------------------- runDailyUpdate
IdleRun ==
    [pc |-> "idle", run_date |-> 0, prior |-> 0, errors |-> <<>>,
     countries_updated |-> 0, detail |-> {}, idx |-> 0, cryptoDay |-> Null, us10y |-> Null,
     isMonthly |-> FALSE, result |-> Null, steps |-> <<>>]

Result(status, skipped, countries_updated, errors) ==
    [t |-> "result", status |-> status, skipped |-> skipped,
     countries_updated |-> countries_updated, errors |-> errors]

buildError(msg) == Result("error", FALSE, 0, <<msg>>)

\* mutant: any error makes the run an error
StatusOfStrict(errors, countries_updated) ==
    IF Len(errors) = 0 THEN "success" ELSE "error"

\* 6: the terminal status
StatusOf(errors, countries_updated) ==
    IF Len(errors) = 0 THEN "success"
    ELSE IF countries_updated > 0 THEN "partial" ELSE "error"

today == day
isFirstDayOfMonth == day = 1

OrchInit ==
    /\ pipeline_log = <<>>
    /\ metrics_daily \in {EmptyStore, BackfilledStore}
    /\ normalization_params \in {[c \in CountryIds |-> T] : T \in NormTables}
    /\ day = 1
    /\ runs = [r \in Runs |-> IdleRun]
    /\ faults = 0

\* the environment fails n more times, within its budget
B(cond) == IF cond THEN 1 ELSE 0
Fail(n) == faults + n <= budget /\ faults' = faults + n

\* the clock passes midnight UTC
Tick ==
    /\ day < MaxDay
    /\ day' = day + 1
    /\ UNCHANGED <<pipeline_log, metrics_daily, normalization_params, runs, faults, budget>>
    /\ UNCHANGED <<scoreVars, apiVars, buildVars>>

\* entry and 1: run_date, then the idempotency guard's read of the run log.
\* Only data is read off the answer, so a failed read (data null) lets the
\* run proceed like an empty answer.  prior records how many log rows existed
\* at that read.
Guard(r) ==
    /\ runs[r].pc = "idle"
    /\ IF r = 1 THEN TRUE ELSE runs[r - 1].pc # "idle"
    /\ \E readOk \in BOOLEAN :
        LET run_date == today
            existingLog == readOk /\ MaybeSingle(GuardRows(pipeline_log, run_date))
        IN  /\ Fail(B(~readOk))
            /\ runs' = [runs EXCEPT ![r] =
                [@ EXCEPT !.run_date = run_date,
                          !.prior = Len(pipeline_log),
                          !.pc = IF existingLog THEN "done" ELSE "prelude",
                          !.result = IF existingLog
                                     THEN Result("success", TRUE, 0, <<>>)
                                     ELSE Null]]
    /\ UNCHANGED <<pipeline_log, metrics_daily, normalization_params, day, budget>>
    /\ UNCHANGED <<scoreVars, apiVars, buildVars>>

\* 2, 3: load countries, then normalization params (a failed read is fatal:
\* buildError, and nothing is logged); 4: crypto and US 10Y in parallel, then
\* the monthly flag.  None of these reads anything a run writes.
Prelude(r) ==
    /\ runs[r].pc = "prelude"
    /\ \/ /\ Fail(1)
          /\ runs' = [runs EXCEPT ![r] =
              [@ EXCEPT !.pc = "done",
                        !.result = buildError("Failed to load countries")]]
       \/ /\ Fail(1)
          /\ runs' = [runs EXCEPT ![r] =
              [@ EXCEPT !.pc = "done",
                        !.result = buildError("Failed to load normalization_params")]]
       \/ \E cryptoDay \in OrNull(CryptoRatios), us10y \in OrNull(Us10yValues) :
          /\ Fail(B(cryptoDay = Null) + B(us10y = Null))
          /\ runs' = [runs EXCEPT ![r] =
              [@ EXCEPT !.cryptoDay = cryptoDay,
                        !.us10y = us10y,
                        !.errors = @ \o (IF cryptoDay = Null
                                         THEN <<<<"", "crypto fetch failed">>>> ELSE <<>>)
                                     \o (IF us10y = Null
                                         THEN <<<<"", "us_10y fetch failed">>>> ELSE <<>>),
                        !.isMonthly = isFirstDayOfMonth,
                        !.idx = 1,
                        !.pc = IF Len(countries) = 0 THEN "log" ELSE "country"]]
    /\ UNCHANGED <<pipeline_log, metrics_daily, normalization_params, day, budget>>
    /\ UNCHANGED <<scoreVars, apiVars, buildVars>>

\* 5g: detail[iso2] is set when the upsert returned no error; the model keeps
\* the keys
DetailAfter(detail, iso2, upsertOk) ==
    IF upsertOk THEN detail \cup {iso2} ELSE detail

StablecoinResults ==
    {Null} \cup {[t |-> "sc", premium |-> v, source_count |-> 2] : v \in StablecoinPremia}

\* 5g: countries_updated++ only when the upsert returned no error
UpdatedAfter(countries_updated, upsertOk) ==
    IF upsertOk THEN countries_updated + 1 ELSE countries_updated

\* the adapters one per-country step calls: FX always (5a), the stablecoin
\* premium when FX answered (5b2), and inflation, sovereign yield and
\* reserves inside if (isMonthly) (5d)
MonthlyAdapters == {"inflation", "sovereign", "reserves"}

\* 5d: a country with a FRED series gets fetchSovereignFred, the others
\* fetchSovereignImf; one of the two is called, never both
SovereignAdapter(iso2) ==
    IF iso2 \in FRED_SOVEREIGN_SERIES THEN "fetchSovereignFred" ELSE "fetchSovereignImf"

AdaptersCalled(iso2, fx, isMonthly) ==
    {"fx"} \cup (IF StablecoinCalled(iso2, fx) THEN {"stablecoin"} ELSE {})
           \cup (IF isMonthly THEN MonthlyAdapters \cup {SovereignAdapter(iso2)} ELSE {})

\* what one per-country step did (a history the properties read; the code
\* keeps none): the adapter and store failures it met, the stored row it hit,
\* the columns it sent and the outcome of the upsert
StepRecord(cm, stressResult, before, date, upsertOk, adapterFails, failed, called) ==
    [iso2 |-> cm.iso2, country_id |-> cm.country_id, date |-> date,
     before |-> before, held |-> HeldOf(cm), row |-> UpsertRowOf(cm, stressResult),
     metrics |-> cm.metrics, stressResult |-> stressResult,
     upsertOk |-> upsertOk, adapterFails |-> adapterFails, failed |-> failed,
     called |-> called, missing |-> cm.missing]

\* the loop's control: the country after idx, or step 6 after the last one
AfterCountryStop(idx) == "log"
AfterCountry(idx) == IF idx + 1 > Len(countries) THEN "log" ELSE "country"

\* 5a to 5g for country idx: the fetches, the store reads, the score, the
\* upsert and its outcome; then the next country or step 6
CountryStep(r) ==
    /\ runs[r].pc = "country"
    /\ LET run == runs[r]
           country == countries[run.idx]
           monthly == run.isMonthly
       IN  \E fx \in FxDayResults(today),
              scr \in IF country.iso2 = "AR" THEN StablecoinResults ELSE {Null},
              vol \in FxVolValues,
              infl \in IF monthly THEN OrNull(InflationValues) ELSE {Null},
              sov \in IF monthly THEN OrNull(SovereignYields) ELSE {Null},
              res \in IF monthly THEN OrNull(ReservesLevels) ELSE {Null},
              failed \in {{}} \cup {{q} : q \in LoopReads},
              upsertOk \in BOOLEAN :
            /\ ~StablecoinCalled(country.iso2, fx) => scr = Null
            /\ failed \subseteq ReadsMade(fx, monthly, res)
            /\ Fail(B(fx = Null) + B(fx # Null /\ ~IsNum(fx.close))
                    + B(StablecoinCalled(country.iso2, fx) /\ scr = Null)
                    + B(monthly /\ infl = Null) + B(monthly /\ sov = Null)
                    + B(monthly /\ res = Null) + Cardinality(failed)
                    + B(~upsertOk))
            /\ \E cm \in {CountryMetricsOf(metrics_daily, today, monthly,
                               run.cryptoDay, run.us10y, country,
                               fx, scr, vol, infl, sov, res, failed)} :
               \E stressResult \in {computeStressScore(cm.metrics,
                                        normalization_params[country.id])} :
                /\ metrics_daily' =
                      IF upsertOk
                      THEN UpsertInto(metrics_daily, cm.country_id,
                                      UpsertDateOf(cm, run.run_date),
                                      UpsertRowOf(cm, stressResult))
                      ELSE metrics_daily
                /\ runs' = [runs EXCEPT ![r] =
                      [@ EXCEPT !.errors = @ \o cm.errors
                                    \o (IF upsertOk THEN <<>>
                                        ELSE <<<<cm.iso2, "upsert failed">>>>),
                                !.countries_updated = UpdatedAfter(@, upsertOk),
                                !.detail = DetailAfter(@, cm.iso2, upsertOk),
                                !.idx = @ + 1,
                                !.pc = AfterCountry(run.idx),
                                !.steps = Append(@,
                                    StepRecord(cm, stressResult,
                                        metrics_daily[cm.country_id,
                                            UpsertDateOf(cm, run.run_date)],
                                        UpsertDateOf(cm, run.run_date), upsertOk,
                                        {a \in {"fx", "stablecoin", "inflation",
                                                "sovereign", "reserves"} :
                                            \/ a = "fx" /\ fx = Null
                                            \/ a = "stablecoin"
                                               /\ StablecoinCalled(country.iso2, fx)
                                               /\ scr = Null
                                            \/ a = "inflation" /\ monthly /\ infl = Null
                                            \/ a = "sovereign" /\ monthly /\ sov = Null
                                            \/ a = "reserves" /\ monthly /\ res = Null},
                                        failed,
                                        AdaptersCalled(country.iso2, fx, monthly)))]]
    /\ UNCHANGED <<pipeline_log, normalization_params, day, budget>>
    /\ UNCHANGED <<scoreVars, apiVars, buildVars>>

\* the platform ends the invocation when the route's maxDuration is over:
\* runDailyUpdate has no timer, signal or handler for it, so the invocation
\* stops where it is, between two awaits, and runs nothing more
Cancel(r) ==
    /\ runs[r].pc \in {"prelude", "country", "log"}
    /\ runs' = [runs EXCEPT ![r] = [@ EXCEPT !.pc = "killed"]]
    /\ UNCHANGED <<pipeline_log, metrics_daily, normalization_params, day, faults, budget>>
    /\ UNCHANGED <<scoreVars, apiVars, buildVars>>

\* 6: the row inserted: run_date, status, detail: { ...detail, errors }
LogRow(run_date, status, detail, errors) ==
    [run_date |-> run_date, status |-> status,
     detail |-> [countries |-> detail, errors |-> errors]]

\* 6: insert the run-log row (the insert's error is not looked at), return
WriteLog(r) ==
    /\ runs[r].pc = "log"
    /\ LET run == runs[r]
           status == StatusOf(run.errors, run.countries_updated)
       IN  \E insertOk \in BOOLEAN :
            /\ Fail(B(~insertOk))
            /\ pipeline_log' =
                  IF insertOk
                  THEN Append(pipeline_log, LogRow(run.run_date, status, run.detail,
                                                   run.errors))
                  ELSE pipeline_log
            /\ runs' = [runs EXCEPT ![r] =
                  [@ EXCEPT !.pc = "done",
                            !.result = Result(status, FALSE, run.countries_updated,
                                              run.errors)]]
    /\ UNCHANGED <<metrics_daily, normalization_params, day, budget>>
    /\ UNCHANGED <<scoreVars, apiVars, buildVars>>

\* ------------------------------------------- the scoring engine, called
\* inputs of a scoring call: per metric, the raw values and the params tried
ScoreValues ==
    [fx_vol |-> {Null, NaN, Num(20), Num(30), Num(50)},
     inflation |-> {Null, Num(15), Num(30)},
     risk_spread |-> {Null, Num(30)},
     crypto_ratio |-> {Null, Num(25)},
     reserves_change |-> {Null, Num(-5)},
     stablecoin_premium |-> {Null, Num(10)}]

ScoreParams ==
    [fx_vol |-> {NoParam, NormParam(10, 40), NormParam(20, 20)},
     inflation |-> {NoParam, NormParam(0, 50)},
     risk_spread |-> {NoParam, NormParam(0, 60)},
     crypto_ratio |-> {NoParam, NormParam(10, 50)},
     reserves_change |-> {NoParam, NormParam(-10, 10)},
     stablecoin_premium |-> {NoParam, NormParam(0, 40)}]

ScoreInit ==
    /\ sc_pc = "input"
    /\ sc_metrics \in
          [fx_vol : ScoreValues.fx_vol, inflation : ScoreValues.inflation,
           risk_spread : ScoreValues.risk_spread,
           crypto_ratio : ScoreValues.crypto_ratio,
           reserves_change : ScoreValues.reserves_change,
           stablecoin_premium : ScoreValues.stablecoin_premium]
    /\ sc_params \in
          [fx_vol : ScoreParams.fx_vol, inflation : ScoreParams.inflation,
           risk_spread : ScoreParams.risk_spread,
           crypto_ratio : ScoreParams.crypto_ratio,
           reserves_change : ScoreParams.reserves_change,
           stablecoin_premium : ScoreParams.stablecoin_premium]
    /\ sc_result = Null
    /\ sc_norm = Null

\* computeStressScore(metrics, normParams)
Score ==
    /\ sc_pc = "input"
    /\ sc_result' = computeStressScore(sc_metrics, sc_params)
    /\ sc_pc' = "scored"
    /\ UNCHANGED <<sc_metrics, sc_params, sc_norm>>
    /\ UNCHANGED <<orchVars, apiVars, buildVars>>

\* clamp-normalize of the fx_vol input, by the kernel and by the engine
Normalize ==
    /\ sc_norm = Null
    /\ IsNum(sc_metrics["fx_vol"])
    /\ sc_params["fx_vol"] # NoParam
    /\ LET v == sc_metrics["fx_vol"].v
           p == sc_params["fx_vol"]
       IN  sc_norm' = [t |-> "norm",
                       kernel |-> normalizeMinMax(v, p.min_val, p.max_val),
                       engine |-> normalizeScore(v, p.min_val, p.max_val)]
    /\ UNCHANGED <<sc_pc, sc_metrics, sc_params, sc_result>>
    /\ UNCHANGED <<orchVars, apiVars, buildVars>>

ScoreOff ==
    /\ sc_pc = "off"
    /\ sc_metrics = <<>>
    /\ sc_params = <<>>
    /\ sc_result = Null
    /\ sc_norm = Null

ApiOff ==
    /\ api_order = <<>>
    /\ api_resp = Null

BuildOff ==
    /\ nb_history = <<>>
    /\ nb_exit = <<>>

OrchOff ==
    /\ pipeline_log = <<>>
    /\ metrics_daily = EmptyStore
    /\ normalization_params = [c \in CountryIds |-> NormalParams]
    /\ day = 1
    /\ runs = [r \in Runs |-> IdleRun]
    /\ faults = 0
    /\ budget = 0

\* the orchestrator over the store: SpecRuns invocations over MaxDay days,
\* each started after the one before has returned (overlapping invocations
\* are SpecOverlap's)
Init == OrchInit /\ budget = MaxFaults /\ ScoreOff /\ ApiOff /\ BuildOff
Next ==
    \/ Tick
    \/ \E r \in 1..SpecRuns : Guard(r) /\ (\A q \in 1..(r - 1) : runs[q].pc = "done")
    \/ \E r \in 1..SpecRuns : Prelude(r)
    \/ \E r \in 1..SpecRuns : CountryStep(r)
    \/ \E r \in 1..SpecRuns : WriteLog(r)
Spec == Init /\ [][Next]_vars

\* MaxRuns invocations within one day, the environment failing at most
\* OverlapFaults times
InitOverlap ==
    /\ OrchInit
    /\ metrics_daily = BackfilledStore
    /\ normalization_params = [c \in CountryIds |-> NormalParams]
    /\ budget = OverlapFaults
    /\ ScoreOff
    /\ ApiOff
    /\ BuildOff
NextOverlap ==
    \/ \E r \in Runs : Guard(r)
    \/ \E r \in Runs : Prelude(r)
    \/ \E r \in Runs : CountryStep(r)
    \/ \E r \in Runs : WriteLog(r)
SpecOverlap == InitOverlap /\ [][NextOverlap]_vars

\* one call of the scoring engine and of clamp-normalize on drawn inputs
\* the orchestrator with invocations that may be ended by the platform, each
\* started after the one before has returned or been ended
NextCancel ==
    \/ Tick
    \/ \E r \in 1..SpecRuns : Guard(r) /\ (\A q \in 1..(r - 1) : runs[q].pc \in {"done", "killed"})
    \/ \E r \in 1..SpecRuns : Prelude(r)
    \/ \E r \in 1..SpecRuns : CountryStep(r)
    \/ \E r \in 1..SpecRuns : WriteLog(r)
    \/ \E r \in 1..SpecRuns : Cancel(r)
SpecCancel == InitOverlap /\ [][NextCancel]_vars

\* ------------------------------------------------------------ the read API
MaxApiDay == 41        \* the API's store holds the dates 1..MaxApiDay
ApiDates == 1..MaxApiDay
LastScoredDay == MaxApiDay - 1   \* the newest scored date of a country
HistoryLimit == 30     \* .limit(30) of the history queries
Delta7 == 7
Delta30 == 30

\* the scored dates of a country in the stores tried: none, the latest only,
\* a scored row exactly 7 days before and one 6 days before, one 30 and one
\* 29 days before, and runs of HistoryLimit + 10, HistoryLimit and
\* HistoryLimit + 1 scored rows
ScoredPatterns ==
    {{},
     {LastScoredDay},
     {LastScoredDay - Delta7, LastScoredDay},
     {LastScoredDay - Delta7 + 1, LastScoredDay},
     {LastScoredDay - Delta30, LastScoredDay - Delta7, LastScoredDay},
     {LastScoredDay - Delta30 + 1, LastScoredDay},
     (LastScoredDay - HistoryLimit - 9)..LastScoredDay,
     (LastScoredDay - HistoryLimit + 1)..LastScoredDay,
     (LastScoredDay - HistoryLimit)..LastScoredDay}

\* stress scores by date, in hundredths of a point: flat, rising to the flat
\* one on the latest day, falling to 0 on the latest day, falling
ProfileScore(profile, d) ==
    IF profile = "flat" THEN 5000
    ELSE IF profile = "rising" THEN 5000 - 100 * (LastScoredDay - d)
    ELSE IF profile = "zero" THEN 100 * (LastScoredDay - d)
    ELSE 3800 + 130 * (LastScoredDay - d)

\* a row of the API's store: raw metrics as a backfill leaves them (fx_vol
\* varies with the date), scored by a run or not
ApiRow(country_id, d, scored, profile) ==
    [BackfillRow(country_id, d) EXCEPT
        !["fx_vol"] = Num(d),
        !["stress_score"] = IF scored THEN Num(ProfileScore(profile, d)) ELSE Null,
        !["data_flags"] =
            IF scored /\ country_id # 1
            THEN ("partial" :> TRUE) @@ ("missing" :> <<"stablecoin_premium">>)
            ELSE NoFlags]

\* country 1 has scored rows on the dates of p1, and unscored rows on the
\* other dates after its first scored one and on the newest date of all;
\* country 2 has only the scored rows of p2
ApiStore(p1, s1, p2, s2) ==
    [k \in CountryIds \X ApiDates |->
        IF k[1] = 1
        THEN (IF k[2] \in p1 THEN ApiRow(1, k[2], TRUE, s1)
              ELSE IF k[2] = MaxApiDay \/ (\E d \in p1 : d < k[2])
                   THEN ApiRow(1, k[2], FALSE, s1)
              ELSE NoRow)
        ELSE (IF k[2] \in p2 THEN ApiRow(k[1], k[2], TRUE, s2) ELSE NoRow)]

ApiStores ==
    {ApiStore(p1, s1, p2, s2) :
        p1 \in ScoredPatterns, s1 \in {"flat", "rising", "falling", "zero"},
        p2 \in {{}, {LastScoredDay}, {LastScoredDay - Delta7, LastScoredDay}},
        s2 \in {"flat", "falling"}}

\* the orders in which select('id, name, iso2'), which has no ORDER BY, may
\* return the registry
CountryOrders == {countries, <<countries[2], countries[1]>>}

\* .eq(country_id).not(stress_score, is, null): the dates of the scored rows
ScoredDates(table, country_id) ==
    {d \in ApiDates : table[country_id, d] # NoRow
                      /\ table[country_id, d]["stress_score"] # Null}

\* ... .lte(date, cutoff).order(date desc).limit(1).maybeSingle(): the newest
\* scored row dated cutoff or before, with its date, or NoRow
ScoredAtOrBefore(table, country_id, cutoff) ==
    LET ds == {d \in ScoredDates(table, country_id) : d <= cutoff}
    IN  IF ds = {} THEN NoRow
        ELSE LET d == CHOOSE x \in ds : \A y \in ds : y <= x
             IN  [t |-> "row", date |-> d, row |-> table[country_id, d]]

\* getOffsetDate(dateStr, offsetDays), on a server whose local time is UTC
getOffsetDate(date, offsetDays) == date + offsetDays

\* round1(n) = Math.round(n * 10) / 10, n in hundredths of a point
round1(n) == Round1(Frac(n, 100))

\* computeComponentScores: per metric of WEIGHTS, null when the value is null
\* or undefined or there is no param, else the normalized value times 100
\* rounded to one decimal (held in tenths)
computeComponentScores(metrics, paramMap) ==
    [m \in MetricNames |->
        IF m \notin DOMAIN metrics THEN Null
        ELSE IF metrics[m] = Null \/ paramMap[m] = NoParam THEN Null
        ELSE Num(RoundTenths(FracMul(Frac(100, 1),
                 normalizeScore(metrics[m].v, paramMap[m].min_val,
                                paramMap[m].max_val))))]

\* the metrics object the scoreboard and getCountryHistory build from a row:
\* five metrics, stablecoin_premium is not selected
FiveMetrics(row) ==
    [m \in MetricNames \ {"stablecoin_premium"} |-> row[m]]

\* the metrics object the history endpoint builds from a row
SixMetrics(row) == [m \in MetricNames |-> row[m]]

\* row?.stress_score != null ? round1(latest.stress_score - row.stress_score)
\* : null
DeltaOf(latestScore, earlier) ==
    IF earlier # NoRow THEN Num(round1(latestScore - earlier.row["stress_score"].v))
    ELSE Null

\* the reads of one scoreboard request that may fail: the two loads, and per
\* country the three row queries
ScoreboardReads ==
    {<<0, "countries">>, <<0, "norm">>}
    \cup {<<c, q>> : c \in CountryIds, q \in {"latest", "row7d", "row30d"}}

\* the scoreboard's entry for one country, or Null when it has no scored row
\* (or the query for it failed: only data is read off the answer)
ScoreboardEntry(table, params, country, failed) ==
    LET cid == country.id
        latest == IF <<cid, "latest">> \in failed THEN NoRow
                  ELSE ScoredAtOrBefore(table, cid, MaxApiDay)
    IN  IF latest = NoRow THEN Null
        ELSE LET score == latest.row["stress_score"].v
                 row7d == IF <<cid, "row7d">> \in failed THEN NoRow
                          ELSE ScoredAtOrBefore(table, cid,
                                   getOffsetDate(latest.date, -Delta7))
                 row30d == IF <<cid, "row30d">> \in failed THEN NoRow
                           ELSE ScoredAtOrBefore(table, cid,
                                    getOffsetDate(latest.date, -Delta30))
                 flags == latest.row["data_flags"]
             IN  [country_id |-> cid,
                  iso2 |-> country.iso2,
                  date |-> latest.date,
                  stress_score |-> score,
                  rank |-> 0,
                  delta_7d |-> DeltaOf(score, row7d),
                  delta_30d |-> DeltaOf(score, row30d),
                  components |-> computeComponentScores(FiveMetrics(latest.row),
                                                        params[cid]),
                  partial |-> IF HasFlag(flags, "partial") THEN flags["partial"]
                              ELSE FALSE,
                  missing |-> IF HasFlag(flags, "missing") THEN flags["missing"]
                              ELSE <<>>,
                  low_confidence |-> IF HasFlag(flags, "low_confidence")
                                     THEN flags["low_confidence"] ELSE FALSE]

\* the loop over the countries, in the order the store returned them
RECURSIVE ScoreboardResults(_, _, _, _)
ScoreboardResults(table, params, order, failed) ==
    IF order = <<>> THEN <<>>
    ELSE LET e == ScoreboardEntry(table, params, Head(order), failed)
         IN  (IF e = Null THEN <<>> ELSE <<e>>)
             \o ScoreboardResults(table, params, Tail(order), failed)

\* results.sort((a, b) => b.stress_score - a.stress_score): Array.sort is
\* stable, so entries of equal score keep their order
RECURSIVE SortByScoreDesc(_)
SortByScoreDesc(rs) ==
    IF rs = <<>> THEN <<>>
    ELSE LET i == CHOOSE i \in 1..Len(rs) :
                    /\ \A j \in 1..Len(rs) : rs[j].stress_score <= rs[i].stress_score
                    /\ \A j \in 1..(i - 1) : rs[j].stress_score < rs[i].stress_score
         IN  <<rs[i]>>
             \o SortByScoreDesc(SubSeq(rs, 1, i - 1) \o SubSeq(rs, i + 1, Len(rs)))

\* results.forEach((r, i) => { r.rank = i + 1 })
WithRanks(rs) == [i \in 1..Len(rs) |-> [rs[i] EXCEPT !.rank = i]]

\* A request reads the store and leaves it as it is, so a behaviour of the API
\* is one request (api_resp = Null before it) over one of the stores.
\* GET /api/public/stress
Scoreboard ==
    /\ api_order # <<>>
    /\ api_resp = Null
    /\ \E failed \in {{}} \cup {{q} : q \in ScoreboardReads} :
        /\ Fail(Cardinality(failed))
        /\ api_resp' =
              IF failed \cap {<<0, "countries">>, <<0, "norm">>} # {}
              THEN [t |-> "scoreboard", status |-> 500, body |-> <<>>,
                    failed |-> failed]
              ELSE [t |-> "scoreboard", status |-> 200,
                    body |-> WithRanks(SortByScoreDesc(
                                 ScoreboardResults(metrics_daily, normalization_params,
                                                   api_order, failed))),
                    failed |-> failed]
    /\ UNCHANGED <<pipeline_log, metrics_daily, normalization_params, day, runs, budget>>
    /\ UNCHANGED <<scoreVars, api_order, buildVars>>

\* .order(date desc).limit(HistoryLimit), then rows.reverse(): the dates of
\* the newest scored rows, oldest first
RECURSIVE DatesAsc(_)
DatesAsc(ds) ==
    IF ds = {} THEN <<>>
    ELSE LET d == CHOOSE x \in ds : \A y \in ds : x <= y
         IN  <<d>> \o DatesAsc(ds \ {d})

NewestScored(table, country_id, limit) ==
    LET ds == ScoredDates(table, country_id)
    IN  DatesAsc({d \in ds : Cardinality({x \in ds : x > d}) < limit})

\* the codes asked for: the registry's and an unknown one
IsoCodes == {countries[i].iso2 : i \in 1..Len(countries)} \cup {"XX"}

\* .eq('iso2', code).maybeSingle()
CountryOf(code) ==
    IF \E i \in 1..Len(countries) : countries[i].iso2 = code
    THEN countries[CHOOSE i \in 1..Len(countries) : countries[i].iso2 = code]
    ELSE Null

\* GET /api/public/stress/{code}/history: a failed read is thrown and
\* answered 500
History ==
    /\ api_order # <<>>
    /\ api_resp = Null
    /\ \E code \in IsoCodes, failed \in {"none", "country", "norm", "rows"} :
        LET country == CountryOf(code)
        IN  /\ Fail(B(failed # "none"))
            /\ failed \in {"norm", "rows"} => country # Null
            /\ api_resp' =
                  IF failed # "none"
                  THEN [t |-> "history", code |-> code, status |-> 500, body |-> <<>>]
                  ELSE IF country = Null
                  THEN [t |-> "history", code |-> code, status |-> 404, body |-> <<>>]
                  ELSE LET ds == NewestScored(metrics_daily, country.id, HistoryLimit)
                       IN  [t |-> "history", code |-> code, status |-> 200,
                            body |->
                              [i \in 1..Len(ds) |->
                                LET row == metrics_daily[country.id, ds[i]]
                                IN  [date |-> ds[i],
                                     stress_score |-> row["stress_score"].v,
                                     components |->
                                        computeComponentScores(SixMetrics(row),
                                            normalization_params[country.id])]]]
    /\ UNCHANGED <<pipeline_log, metrics_daily, normalization_params, day, runs, budget>>
    /\ UNCHANGED <<scoreVars, api_order, buildVars>>

\* getCountryHistory(iso2): only data is read off each answer, so a failed
\* read is taken as no country, no params or no rows
CountryHistory ==
    /\ api_order # <<>>
    /\ api_resp = Null
    /\ \E code \in IsoCodes, failed \in {"none", "country", "norm", "rows"} :
        LET country == IF failed = "country" THEN Null ELSE CountryOf(code)
            params == IF country = Null \/ failed = "norm"
                      THEN [m \in MetricNames |-> NoParam]
                      ELSE normalization_params[country.id]
            ds == IF country = Null \/ failed = "rows" THEN <<>>
                  ELSE NewestScored(metrics_daily, country.id, HistoryLimit)
        IN  /\ Fail(B(failed # "none"))
            /\ failed \in {"norm", "rows"} => CountryOf(code) # Null
            /\ api_resp' =
                  [t |-> "getCountryHistory", code |-> code, failed |-> failed,
                   body |->
                     [i \in 1..Len(ds) |->
                       LET row == metrics_daily[country.id, ds[i]]
                       IN  [date |-> ds[i],
                            stress_score |-> row["stress_score"].v,
                            components |->
                               computeComponentScores(FiveMetrics(row), params)]]]
    /\ UNCHANGED <<pipeline_log, metrics_daily, normalization_params, day, runs, budget>>
    /\ UNCHANGED <<scoreVars, api_order, buildVars>>

\* .eq(country_id).lte(date, cutoff).order(date desc).limit(1).maybeSingle()
\* of getCountrySnapshot: the newest row dated cutoff or before, scored or
\* not, or NoRow
RowAtOrBefore(table, country_id, cutoff) ==
    LET ds == {d \in ApiDates : table[country_id, d] # NoRow /\ d <= cutoff}
    IN  IF ds = {} THEN NoRow
        ELSE LET d == CHOOSE x \in ds : \A y \in ds : y <= x
             IN  [t |-> "row", date |-> d, row |-> table[country_id, d]]

\* row?.stress_score != null ? round1(latest.stress_score - row.stress_score)
\* : null, for a row that may have no score
SnapshotDeltaOf(latestScore, earlier) ==
    IF earlier # NoRow /\ earlier.row["stress_score"] # Null
    THEN Num(round1(latestScore - earlier.row["stress_score"].v))
    ELSE Null

\* rank: 1 plus the other countries whose latest score is greater
SnapshotRankOf(table, country_id, score, failed) ==
    1 + Cardinality({c \in CountryIds \ {country_id} :
            /\ failed # "other"
            /\ ScoredAtOrBefore(table, c, MaxApiDay) # NoRow
            /\ ScoredAtOrBefore(table, c, MaxApiDay).row["stress_score"].v > score})

\* getCountrySnapshot(iso2) of the image card: only data is read off each
\* answer; null when the country is unknown or its latest score is falsy
CountrySnapshot ==
    /\ api_order # <<>>
    /\ api_resp = Null
    /\ \E code \in IsoCodes,
          failed \in {"none", "countries", "latest", "row7d", "row30d", "other"} :
        LET country == IF failed = "countries" THEN Null ELSE CountryOf(code)
            latest == IF country = Null \/ failed = "latest" THEN NoRow
                      ELSE ScoredAtOrBefore(metrics_daily, country.id, MaxApiDay)
        IN  /\ Fail(B(failed # "none"))
            /\ failed \in {"latest", "row7d", "row30d", "other"} =>
                  CountryOf(code) # Null
            /\ failed \in {"row7d", "row30d", "other"} =>
                  ScoredAtOrBefore(metrics_daily, CountryOf(code).id, MaxApiDay) # NoRow
            /\ api_resp' =
                  [t |-> "getCountrySnapshot", code |-> code, failed |-> failed,
                   body |->
                     IF latest = NoRow THEN Null
                     ELSE IF latest.row["stress_score"].v = 0 THEN Null
                     ELSE LET score == latest.row["stress_score"].v
                              row7d == IF failed = "row7d" THEN NoRow
                                       ELSE RowAtOrBefore(metrics_daily, country.id,
                                                getOffsetDate(latest.date, -Delta7))
                              row30d == IF failed = "row30d" THEN NoRow
                                        ELSE RowAtOrBefore(metrics_daily, country.id,
                                                 getOffsetDate(latest.date, -Delta30))
                          IN  [iso2 |-> country.iso2,
                               stress_score |-> score,
                               rank |-> SnapshotRankOf(metrics_daily, country.id,
                                                       score, failed),
                               delta_7d |-> SnapshotDeltaOf(score, row7d),
                               delta_30d |-> SnapshotDeltaOf(score, row30d),
                               date |-> latest.date]]
    /\ UNCHANGED <<pipeline_log, metrics_daily, normalization_params, day, runs, budget>>
    /\ UNCHANGED <<scoreVars, api_order, buildVars>>

ApiFaults == 1         \* store reads that fail in one behaviour of the API

InitApi ==
    /\ pipeline_log = <<>>
    /\ metrics_daily \in ApiStores
    /\ normalization_params \in {[c \in CountryIds |-> T] : T \in NormTables}
    /\ day = MaxApiDay
    /\ runs = [r \in Runs |-> IdleRun]
    /\ faults = 0
    /\ budget = ApiFaults
    /\ api_order \in CountryOrders
    /\ api_resp = Null
    /\ ScoreOff
    /\ BuildOff

NextApi ==
    \/ Scoreboard
    \/ History
    \/ CountryHistory
    \/ CountrySnapshot
SpecApi == InitApi /\ [][NextApi]_vars

\* ------------------------------------------- the normalization builders
\* The builders read the dated history of one column of one country and write
\* normalization_params. Values, p5 and p95 are exact rationals (Frac) of the
\* metric's unit.
FracSub(a, b) == FracAdd(a, Frac(-b.num, b.den))
FracLe(a, b) == a.num * b.den <= b.num * a.den

\* [...values].sort((a, b) => a - b)
RECURSIVE SortAsc(_)
SortAsc(vs) ==
    IF vs = <<>> THEN <<>>
    ELSE LET i == CHOOSE i \in 1..Len(vs) : \A j \in 1..Len(vs) : FracLe(vs[i], vs[j])
         IN  <<vs[i]>> \o SortAsc(SubSeq(vs, 1, i - 1) \o SubSeq(vs, i + 1, Len(vs)))

\* percentile(values, p): linear interpolation between the two neighbours of
\* index (p / 100) * (n - 1) of the sorted values (indices from 0 in the code)
percentile(values, p) ==
    LET sorted == SortAsc(values)
        idx == Reduce(Frac(p * (Len(sorted) - 1), 100))
        lower == idx.num \div idx.den
        upper == IF idx.den = 1 THEN lower ELSE lower + 1
    IN  IF lower = upper THEN sorted[lower + 1]
        ELSE FracAdd(sorted[lower + 1],
                     FracMul(FracSub(sorted[upper + 1], sorted[lower + 1]),
                             FracSub(idx, Frac(lower, 1))))

\* Math.round(x * 10000) / 10000
Round4(x) == Reduce(Frac((2 * 10000 * x.num + x.den) \div (2 * x.den), 10000))

P5 == 5
P95 == 95
MinValues == 10        \* compute-normalization: values.length < 10 is skipped
MinGapValues == 5      \* stablecoin bootstrap: values.length < 5 exits

\* METRIC_CONFIG: the five base metrics, each read from its own column
BaseMetrics == {"fx_vol", "inflation", "risk_spread", "crypto_ratio", "reserves_change"}
BuildColumns == BaseMetrics \cup {"arg_blue_gap"}

\* fetchMetricValues / the bootstrap's query: the non-null values of the
\* column for the country, date ascending (the histories tried lie within
\* the 365-day window of crypto_ratio)
fetchMetricValues(history, countryId, column) == history[<<countryId, column>>]

\* the params compute-normalization collects for one country: a metric with
\* fewer than MinValues values is skipped, the others get p5 and p95 as they
\* are
ParamsOf(history, countryId) ==
    [m \in BaseMetrics |->
        LET values == fetchMetricValues(history, countryId, m)
        IN  IF Len(values) < MinValues THEN NoParam
            ELSE NormParam(percentile(values, P5), percentile(values, P95))]

\* upsert(results, onConflict country_id,metric_name): one statement
UpsertParams(table, results) ==
    [c \in CountryIds |->
        [m \in MetricNames |->
            IF m \in DOMAIN results[c] /\ results[c][m] # NoParam
            THEN results[c][m] ELSE table[c][m]]]

MaxBuilds == 2         \* builder runs in one behaviour
BuildFaults == 1       \* store calls that fail in one behaviour

\* compute-normalization main(): a failed load, fetch or upsert throws and
\* nothing is written
ComputeNormalization ==
    /\ nb_history # <<>>
    /\ Len(nb_exit) < MaxBuilds
    /\ \E failed \in {"none", "countries", "fetch", "upsert"} :
        /\ Fail(B(failed # "none"))
        /\ \E results \in {[c \in CountryIds |-> ParamsOf(nb_history, c)]} :
            /\ normalization_params' =
                  IF failed = "none" THEN UpsertParams(normalization_params, results)
                  ELSE normalization_params
            /\ nb_exit' = Append(nb_exit,
                  [script |-> "compute-normalization", failed |-> failed,
                   code |-> IF failed = "none" THEN 0 ELSE 1,
                   written |->
                     IF failed # "none" THEN {}
                     ELSE {<<c, m>> \in CountryIds \X BaseMetrics :
                              results[c][m] # NoParam}])
    /\ UNCHANGED <<pipeline_log, metrics_daily, day, runs, budget>>
    /\ UNCHANGED <<scoreVars, apiVars, nb_history>>

\* scripts/backfill/stablecoin.ts main(): AR only, from the arg_blue_gap
\* history; exits 1 on a failed call, on fewer than MinGapValues values and on
\* p5 >= p95, else upserts p5 and p95 rounded to four decimals
StablecoinBootstrap ==
    /\ nb_history # <<>>
    /\ Len(nb_exit) < MaxBuilds
    /\ \E failed \in {"none", "country", "fetch", "upsert"} :
        /\ Fail(B(failed # "none"))
        /\ \E countryId \in {CountryOf("AR").id} :
           \E values \in {fetchMetricValues(nb_history, countryId, "arg_blue_gap")} :
           \E enough \in {failed \notin {"country", "fetch"} /\ Len(values) >= MinGapValues} :
           \E p5 \in {IF enough THEN percentile(values, P5) ELSE Null},
              p95 \in {IF enough THEN percentile(values, P95) ELSE Null} :
           \E upserts \in {enough /\ ~FracLe(p95, p5)} :
            /\ normalization_params' =
                  IF upserts /\ failed = "none"
                  THEN [normalization_params EXCEPT
                           ![countryId]["stablecoin_premium"] =
                               NormParam(Round4(p5), Round4(p95))]
                  ELSE normalization_params
            /\ nb_exit' = Append(nb_exit,
                  [script |-> "stablecoin", failed |-> failed,
                   code |-> IF upserts /\ failed = "none" THEN 0 ELSE 1,
                   written |-> IF upserts /\ failed = "none"
                               THEN {<<countryId, "stablecoin_premium">>} ELSE {}])
    /\ UNCHANGED <<pipeline_log, metrics_daily, day, runs, budget>>
    /\ UNCHANGED <<scoreVars, apiVars, nb_history>>

\* histories of a column, in date order: identical (forward-filled) values,
\* falling values, and zeros with one value of 0.00002 among them
Flat(n) == [i \in 1..n |-> Frac(25, 1)]
Ramp(n) == [i \in 1..n |-> Frac(40 - 3 * i, 1)]
Near(n) == [i \in 1..n |-> IF i = 2 THEN Frac(1, 50000) ELSE Frac(0, 1)]

BaseHistories ==
    {<<>>, Flat(MinValues - 1), Flat(MinValues), Ramp(MinValues),
     Ramp(MinValues + 1), Near(MinValues)}
GapHistories ==
    {<<>>, Flat(MinGapValues), Ramp(MinGapValues - 1), Ramp(MinGapValues),
     Near(MinGapValues), Ramp(MinValues)}

\* country 1: fx_vol has history hA and the other base columns hB, and
\* arg_blue_gap has g; country 2: the base columns have hC and no gap
BuildHistory(hA, hB, hC, g) ==
    [k \in CountryIds \X BuildColumns |->
        IF k[2] = "arg_blue_gap" THEN (IF k[1] = 1 THEN g ELSE <<>>)
        ELSE IF k[1] = 1 THEN (IF k[2] = "fx_vol" THEN hA ELSE hB)
        ELSE hC]

\* params already stored before a builder runs: none, or valid ones
ValidParams == [m \in MetricNames |-> NormParam(Frac(0, 1), Frac(40, 1))]

InitBuild ==
    /\ pipeline_log = <<>>
    /\ metrics_daily = EmptyStore
    /\ normalization_params \in
          {[c \in CountryIds |-> T] : T \in {[m \in MetricNames |-> NoParam], ValidParams}}
    /\ day = 1
    /\ runs = [r \in Runs |-> IdleRun]
    /\ faults = 0
    /\ budget = BuildFaults
    /\ nb_history \in
          {BuildHistory(hA, hB, hC, g) :
              hA \in BaseHistories, hB \in BaseHistories,
              hC \in {Flat(MinValues), Ramp(MinValues)}, g \in GapHistories}
    /\ nb_exit = <<>>
    /\ ScoreOff
    /\ ApiOff

NextBuild ==
    \/ ComputeNormalization
    \/ StablecoinBootstrap
SpecBuild == InitBuild /\ [][NextBuild]_vars

InitScore == ScoreInit /\ OrchOff /\ ApiOff /\ BuildOff
NextScore ==
    \/ Score
    \/ Normalize
SpecScore == InitScore /\ [][NextScore]_vars

\* ------------------------------------------ properties: runDailyUpdate
\* invocation r has returned without being skipped by the guard
Returned(r) == runs[r].pc = "done" /\ ~runs[r].result.skipped

\* invocation r has returned the skipped result
Skipped(r) == runs[r].pc = "done" /\ runs[r].result = Result("success", TRUE, 0, <<>>)

\* the run log held a row of this status for r's date when r's guard read it
LoggedBefore(r, status) ==
    \E i \in 1..runs[r].prior :
        pipeline_log[i].run_date = runs[r].run_date /\ pipeline_log[i].status = status

\* the rows appended since r's guard read, for r's date
RowsSince(r) ==
    {i \in (runs[r].prior + 1)..Len(pipeline_log) :
        pipeline_log[i].run_date = runs[r].run_date}

UpsertFailures(errors) ==
    Cardinality({i \in 1..Len(errors) : errors[i][2] = "upsert failed"})

\* C1 (with no adapter or store call failing): once the run log holds a
\* success row for date D, every later call on D returns success with
\* skipped = true and countries_updated = 0 and goes no further than the guard.
C1_LaterCallsSkipped ==
    faults = 0 =>
        \A r \in Runs :
            (runs[r].pc # "idle" /\ LoggedBefore(r, "success")) => Skipped(r)

\* C2 as stated: after a run on D that ended partial, a second call on D
\* returns the skipped result and writes nothing.
C2_SkippedAfterPartial ==
    \A r \in Runs :
        (runs[r].pc # "idle" /\ LoggedBefore(r, "partial")) => Skipped(r)

\* C2: a call is skipped only when the run log held a success row for its
\* date; after a run that ended partial (and none that ended success) the
\* second call on the same date runs the pipeline again.
C2_SkippedOnlyAfterSuccess ==
    \A r \in Runs :
        (runs[r].pc = "done" /\ runs[r].result.skipped) => LoggedBefore(r, "success")

\* a second call after a partial run has upserted and appended its own row
C2_Witness ==
    \E r \in Runs :
        /\ Returned(r)
        /\ LoggedBefore(r, "partial")
        /\ ~LoggedBefore(r, "success")
        /\ runs[r].result.countries_updated > 0
        /\ RowsSince(r) # {}

\* C3: of two invocations for the same date that overlap, at most one gets
\* past the guard: never are both in flight with upserts done.
C3_AtMostOneProceeds ==
    \A r1, r2 \in Runs :
        (/\ r1 < r2
         /\ runs[r1].run_date = runs[r2].run_date
         /\ runs[r1].pc \in {"country", "log"}
         /\ runs[r2].pc \in {"country", "log"})
        => ~(runs[r1].countries_updated > 0 /\ runs[r2].countries_updated > 0)

\* C4: the status returned and the status logged are success when no error
\* was collected, partial when errors were collected and at least one country
\* was updated, error when errors were collected and no country was updated;
\* a country whose upsert failed is not counted as updated.
C4_TerminalStatus ==
    /\ \A r \in Runs :
          Returned(r) =>
            LET res == runs[r].result
            IN  /\ res.status = "success" <=> Len(res.errors) = 0
                /\ res.status = "partial"
                      <=> (Len(res.errors) > 0 /\ res.countries_updated > 0)
                /\ res.status = "error"
                      <=> (Len(res.errors) > 0 /\ res.countries_updated = 0)
                /\ runs[r].idx > 0 =>
                      res.countries_updated
                          = Len(countries) - UpsertFailures(res.errors)
    /\ \A i \in 1..Len(pipeline_log) :
          LET row == pipeline_log[i]
          IN  /\ row.status = "success" <=> Len(row.detail.errors) = 0
              /\ row.status = "partial"
                    <=> (Len(row.detail.errors) > 0 /\ row.detail.countries # {})
              /\ row.status = "error"
                    <=> (Len(row.detail.errors) > 0 /\ row.detail.countries = {})

\* a run whose upsert failed for one country ended partial and logged it
C4_Witness ==
    \E r \in Runs :
        /\ Returned(r)
        /\ runs[r].result.status = "partial"
        /\ UpsertFailures(runs[r].result.errors) = 1
        /\ \E i \in RowsSince(r) : pipeline_log[i].status = "partial"

\* C5: every execution that the guard does not skip appends a run-log row
\* carrying the status it returns, the executions that abort at prelude
\* included.
C5_OneRowPerExecution ==
    \A r \in Runs :
        Returned(r) =>
            \E i \in RowsSince(r) : pipeline_log[i].status = runs[r].result.status

\* C6: every stored stress_score that is not null lies in [0, 100] and is a
\* multiple of 0.1, whatever the normalization parameters.
C6_ScoreRange ==
    \A k \in DOMAIN metrics_daily :
        (metrics_daily[k] # NoRow /\ metrics_daily[k]["stress_score"] # Null) =>
            LET s == metrics_daily[k]["stress_score"]
            IN  IsNum(s) /\ 0 <= s.v /\ s.v <= 10000 /\ s.v % 10 = 0

\* a score stored under params with min_val >= max_val
C6_Witness ==
    \E k \in DOMAIN metrics_daily :
        /\ metrics_daily[k] # NoRow
        /\ metrics_daily[k]["stress_score"] # Null
        /\ normalization_params[k[1]] = DegenerateParams

\* ------------------------------------------------- properties: scoring
\* a scoring call has returned a result
Scored == sc_pc = "scored" /\ sc_result # Null

MetricAbsent(m) == sc_metrics[m] = Null \/ sc_params[m] = NoParam

\* the canonical weights of the metrics present with a param, summed metric
\* by metric
PresentWeight ==
    B(~MetricAbsent("fx_vol")) * WEIGHTS.fx_vol
    + B(~MetricAbsent("inflation")) * WEIGHTS.inflation
    + B(~MetricAbsent("risk_spread")) * WEIGHTS.risk_spread
    + B(~MetricAbsent("crypto_ratio")) * WEIGHTS.crypto_ratio
    + B(~MetricAbsent("reserves_change")) * WEIGHTS.reserves_change
    + B(~MetricAbsent("stablecoin_premium")) * WEIGHTS.stablecoin_premium

FlagTrue(flags, k) == IF HasFlag(flags, k) THEN flags[k] = TRUE ELSE FALSE

\* C7: whenever computeStressScore returns a result, partial is true iff at
\* least one of the six metrics is missing (null value or no param), and
\* low_confidence is true iff the canonical weights of the available metrics
\* sum to less than 0.5.
C7_FlagsIff ==
    Scored =>
        /\ FlagTrue(sc_result.data_flags, "partial")
              <=> (\E m \in MetricNames : MetricAbsent(m))
        /\ FlagTrue(sc_result.data_flags, "low_confidence") <=> PresentWeight < 50

\* a call where every value is present, a param is not, and both flags are set
C7_Witness ==
    /\ Scored
    /\ \A m \in MetricNames : sc_metrics[m] # Null
    /\ \E m \in MetricNames : sc_params[m] = NoParam
    /\ FlagTrue(sc_result.data_flags, "partial")
    /\ FlagTrue(sc_result.data_flags, "low_confidence")

\* Scenario 1 (fx_vol in thousandths, inflation and risk_spread in tenths,
\* crypto_ratio in hundredths)
Scenario1 ==
    /\ sc_metrics = [fx_vol |-> Num(30), inflation |-> Num(15),
                     risk_spread |-> Num(30), crypto_ratio |-> Num(25),
                     reserves_change |-> Num(-5), stablecoin_premium |-> Null]
    /\ sc_params.fx_vol = NormParam(10, 40)
    /\ sc_params.inflation = NormParam(0, 50)
    /\ sc_params.risk_spread = NormParam(0, 60)
    /\ sc_params.crypto_ratio = NormParam(10, 50)
    /\ sc_params.reserves_change = NormParam(-10, 10)

\* C8 as stated: Scenario 1 has available weight 0.85 and scores 49.1 with
\* partial and low_confidence both false.
C8_Scenario1Stated ==
    (sc_pc = "scored" /\ Scenario1) =>
        /\ sc_result # Null
        /\ sc_result.available_weight = 85
        /\ sc_result.stress_score = Num(4910)
        /\ ~FlagTrue(sc_result.data_flags, "partial")
        /\ ~FlagTrue(sc_result.data_flags, "low_confidence")

\* C8: Scenario 1 has available weight 0.85 and scores 45.8
\* (100 * 0.389167 / 0.85), with partial true and missing
\* ["stablecoin_premium"], and low_confidence false.
C8_Scenario1 ==
    (sc_pc = "scored" /\ Scenario1) =>
        /\ sc_result # Null
        /\ sc_result.available_weight = 85
        /\ sc_result.stress_score = Num(4580)
        /\ FlagTrue(sc_result.data_flags, "partial")
        /\ sc_result.data_flags["missing"] = <<"stablecoin_premium">>
        /\ ~FlagTrue(sc_result.data_flags, "low_confidence")

C8_Witness == sc_pc = "scored" /\ Scenario1 /\ sc_result # Null

\* Scenario 2: only fx_vol and inflation are present
Scenario2 ==
    /\ sc_metrics = [fx_vol |-> Num(50), inflation |-> Num(30),
                     risk_spread |-> Null, crypto_ratio |-> Null,
                     reserves_change |-> Null, stablecoin_premium |-> Null]
    /\ sc_params.fx_vol = NormParam(10, 40)
    /\ sc_params.inflation = NormParam(0, 50)

\* C9 as stated: Scenario 2 has available weight 0.45, low_confidence true
\* and scores 81.1.
C9_Scenario2Stated ==
    (sc_pc = "scored" /\ Scenario2) =>
        /\ sc_result # Null
        /\ sc_result.available_weight = 45
        /\ FlagTrue(sc_result.data_flags, "low_confidence")
        /\ sc_result.stress_score = Num(8110)

\* C9: Scenario 2 has available weight 0.45, low_confidence true and scores
\* 82.2 (100 * (0.25 * 1.0 + 0.20 * 0.6) / 0.45).
C9_Scenario2 ==
    (sc_pc = "scored" /\ Scenario2) =>
        /\ sc_result # Null
        /\ sc_result.available_weight = 45
        /\ FlagTrue(sc_result.data_flags, "low_confidence")
        /\ sc_result.stress_score = Num(8220)

C9_Witness == sc_pc = "scored" /\ Scenario2 /\ sc_result # Null

\* the fx_vol param is degenerate
DegenerateFx ==
    /\ sc_params.fx_vol # NoParam
    /\ sc_params.fx_vol.min_val = sc_params.fx_vol.max_val

\* C10: clamp-normalize returns 0.5 when hi = lo, in the kernel's
\* normalizeMinMax and in the engine's normalizeScore; with fx_vol the only
\* available metric and a degenerate param the score is 50.0 with
\* low_confidence true.
C10_DegenerateHalf ==
    /\ (sc_norm # Null /\ DegenerateFx) =>
           sc_norm.kernel = Frac(1, 2) /\ sc_norm.engine = Frac(1, 2)
    /\ (Scored /\ DegenerateFx /\ IsNum(sc_metrics.fx_vol)
         /\ \A m \in MetricNames \ {"fx_vol"} : MetricAbsent(m)) =>
           /\ sc_result.stress_score = Num(5000)
           /\ FlagTrue(sc_result.data_flags, "low_confidence")

\* ------------------------------------------ properties: the per-country step
RawColumns ==
    {"fx_close", "inflation_yoy", "sovereign_yield", "us_10y", "reserves_level",
     "stablecoin_premium"}
DerivedColumns ==
    {"fx_vol", "inflation", "risk_spread", "crypto_ratio", "reserves_change"}

\* the steps invocation r has taken so far
StepsOf(r) == {runs[r].steps[i] : i \in 1..Len(runs[r].steps)}

\* no invocation after r has got to the per-country loop, so what r's steps
\* wrote is still what the store holds
Latest(r) == \A q \in Runs : q > r => Len(runs[q].steps) = 0

\* the row the store held for the step's key before the step
BeforeOf(st) == IF st.before = NoRow THEN DefaultRow ELSE st.before

\* the row the store holds for the step's key
StoredOf(st) == metrics_daily[st.country_id, st.date]

\* no metric of the step has both a non-null value and a param
NoMetricAvailable(st) ==
    \A m \in MetricNames :
        st.metrics[m] = Null \/ normalization_params[st.country_id][m] = NoParam

\* C11: computeStressScore returns null, never a score of 0, exactly when no
\* metric has both a non-null raw value and a normalization param; the step
\* then still upserts the row with the raw columns it holds, sends no
\* stress_score (the stored one stays as it was) and counts the country as
\* updated.
C11_NoResultStillUpserted ==
    \A r \in Runs :
        /\ \A st \in StepsOf(r) :
            /\ st.stressResult = Null <=> NoMetricAvailable(st)
            /\ (st.stressResult = Null /\ st.upsertOk) =>
                /\ "stress_score" \notin DOMAIN st.row
                /\ \A col \in RawColumns :
                       st.held[col] # Null =>
                           col \in DOMAIN st.row /\ st.row[col] = st.held[col]
                /\ st.iso2 \in runs[r].detail
                /\ Latest(r) =>
                    /\ StoredOf(st) # NoRow
                    /\ StoredOf(st)["stress_score"] = BeforeOf(st)["stress_score"]
                    /\ \A col \in RawColumns :
                           st.held[col] # Null =>
                               StoredOf(st)[col] = ToJson(st.held[col])
        /\ runs[r].countries_updated =
               Cardinality({i \in 1..Len(runs[r].steps) : runs[r].steps[i].upsertOk})

\* a step with no metric available whose upsert went through with raw columns
C11_Witness ==
    \E r \in Runs : \E st \in StepsOf(r) :
        /\ NoMetricAvailable(st)
        /\ st.upsertOk
        /\ st.held["inflation_yoy"] # Null
        /\ StoredOf(st)["inflation_yoy"] = st.held["inflation_yoy"]
        /\ StoredOf(st)["stress_score"] = Null
        /\ runs[r].countries_updated > 0

\* C12: an upsert that hits an existing row leaves unchanged every raw and
\* derived column the step holds no value for, replaces no stored raw or
\* derived value by null, and rewrites data_flags.
C12_PartialColumnUpsert ==
    \A r \in Runs : \A st \in StepsOf(r) :
        (st.upsertOk /\ st.before # NoRow /\ Latest(r)) =>
            /\ \A col \in RawColumns \cup DerivedColumns :
                /\ st.held[col] = Null => StoredOf(st)[col] = st.before[col]
                /\ st.before[col] # Null => StoredOf(st)[col] # Null
            /\ StoredOf(st)["data_flags"] = st.row["data_flags"]

\* the newest value of col stored for the step's country at or before the
\* step's date, among the rows whose keycol is not null
ForwardFilled(st, col, keycol) ==
    IF st.before # NoRow /\ st.before[keycol] # Null THEN st.before[col]
    ELSE LET ds == {d \in NonNullDates(metrics_daily, st.country_id, keycol) :
                       d < st.date}
         IN  IF ds = {} THEN Null
             ELSE metrics_daily[st.country_id,
                                CHOOSE x \in ds : \A y \in ds : y <= x][col]

\* scenario 4: a non-monthly run in which only the FX adapter failed for the
\* step's country, the store answered every call, the country has all its
\* params and the store held inflation, sovereign and reserves values
Scenario4(r, st) ==
    /\ ~runs[r].isMonthly
    /\ Latest(r)
    /\ st.adapterFails = {"fx"}
    /\ st.failed = {}
    /\ st.upsertOk
    /\ runs[r].cryptoDay # Null
    /\ runs[r].us10y # Null
    /\ normalization_params[st.country_id] = NormalParams
    /\ \A m \in {"inflation", "risk_spread", "reserves_change"} : st.metrics[m] # Null

\* what scenario 4 gives whatever the country: no fx_close and fx_vol sent,
\* the stored ones kept, forward-filled monthly metrics, status partial
Scenario4Common(r, st) ==
    /\ "fx_close" \notin DOMAIN st.row
    /\ "fx_vol" \notin DOMAIN st.row
    /\ st.date = runs[r].run_date
    /\ StoredOf(st)["fx_close"] = BeforeOf(st)["fx_close"]
    /\ StoredOf(st)["fx_vol"] = BeforeOf(st)["fx_vol"]
    /\ st.metrics["inflation"] = ForwardFilled(st, "inflation", "inflation_yoy")
    /\ st.metrics["risk_spread"] = ForwardFilled(st, "risk_spread", "risk_spread")
    /\ st.metrics["reserves_change"] =
           ForwardFilled(st, "reserves_change", "reserves_level")
    /\ st.metrics["crypto_ratio"] = runs[r].cryptoDay
    /\ st.stressResult # Null
    /\ StoredOf(st)["stress_score"] = ToJson(st.stressResult.stress_score)
    /\ StoredOf(st)["data_flags"] = st.row["data_flags"]
    /\ Returned(r) => runs[r].result.status = "partial"

\* C13 as stated: in scenario 4 the persisted flags have missing equal to
\* ["fx_vol"] and the score is computed over the five other metrics.
C13_Scenario4Stated ==
    \A r \in Runs : \A st \in StepsOf(r) :
        Scenario4(r, st) =>
            /\ Scenario4Common(r, st)
            /\ st.row["data_flags"]["missing"] = <<"fx_vol">>
            /\ AvailableOf(st.metrics, NormalParams) =
                   <<"inflation", "risk_spread", "crypto_ratio", "reserves_change",
                     "stablecoin_premium">>

\* C13: in scenario 4 the row is upserted without fx_close and fx_vol (the
\* stored ones stay) and the run ends partial; for a country that holds a
\* stablecoin premium the persisted missing is ["fx_vol"] and the score is
\* over five metrics (weight 0.75); for any other country the persisted
\* missing is ["fx_vol", "stablecoin_premium"] and the score is over four
\* metrics (weight 0.60).
C13_Scenario4 ==
    \A r \in Runs : \A st \in StepsOf(r) :
        Scenario4(r, st) =>
            /\ Scenario4Common(r, st)
            /\ FlagTrue(st.row["data_flags"], "partial")
            /\ IF st.metrics["stablecoin_premium"] # Null
               THEN /\ st.row["data_flags"]["missing"] = <<"fx_vol">>
                    /\ st.stressResult.available_weight = 75
                    /\ Len(AvailableOf(st.metrics, NormalParams)) = 5
               ELSE /\ st.row["data_flags"]["missing"] =
                           <<"fx_vol", "stablecoin_premium">>
                    /\ st.stressResult.available_weight = 60
                    /\ AvailableOf(st.metrics, NormalParams) =
                           <<"inflation", "risk_spread", "crypto_ratio",
                             "reserves_change">>

\* scenario 4 for a country with no stablecoin premium, the run returned
C13_Witness ==
    \E r \in Runs : \E st \in StepsOf(r) :
        /\ Scenario4(r, st)
        /\ st.metrics["stablecoin_premium"] = Null
        /\ st.before = NoRow
        /\ Returned(r)

\* the adapter calls that failed, over all invocations: the two shared
\* fetches of the prelude and the fetches of each step
AdapterFailures ==
    UNION {(IF runs[r].idx > 0 /\ runs[r].cryptoDay = Null
            THEN {<<r, 0, "crypto">>} ELSE {})
           \cup (IF runs[r].idx > 0 /\ runs[r].us10y = Null
                 THEN {<<r, 0, "us_10y">>} ELSE {})
           \cup UNION {{<<r, i, a>> : a \in runs[r].steps[i].adapterFails} :
                          i \in 1..Len(runs[r].steps)} :
           r \in Runs}

\* every failure so far was an adapter returning null: no store call failed
\* and no adapter returned a malformed value
OnlyAdapterFailures == faults = Cardinality(AdapterFailures)

\* the step's metric of a failed adapter is null (FX, crypto) or the value
\* carried forward from the store (the monthly sources, the premium)
FailedMetricsNull(r, st) ==
    /\ "fx" \in st.adapterFails => st.metrics["fx_vol"] = Null
    /\ runs[r].cryptoDay = Null => st.metrics["crypto_ratio"] = Null
    /\ (Latest(r) /\ "inflation" \in st.adapterFails) =>
           st.metrics["inflation"] = ForwardFilled(st, "inflation", "inflation_yoy")
    /\ (Latest(r) /\ "sovereign" \in st.adapterFails) =>
           st.metrics["risk_spread"] = ForwardFilled(st, "risk_spread", "risk_spread")
    /\ (Latest(r) /\ "reserves" \in st.adapterFails) =>
           st.metrics["reserves_change"] =
               ForwardFilled(st, "reserves_change", "reserves_level")

C15_ReadFailureSkipsCountry ==
    \A r \in Runs : \A st \in StepsOf(r) :
        st.failed # {} =>
            /\ \E i \in 1..Len(runs[r].errors) :
                   runs[r].errors[i] = <<st.iso2, "store read failed">>
            /\ st.iso2 \notin runs[r].detail
            /\ Latest(r) => StoredOf(st) = st.before
            /\ Returned(r) =>
                /\ runs[r].result.status # "success"
                /\ Len(runs[r].steps) = Len(countries)

\* invocation r was ended by the platform before it returned
Killed(r) == runs[r].pc = "killed"

\* C20: when a run is cancelled in the middle of the per-country loop, the
\* rows it has upserted remain and a run-log row with status partial or error
\* is written for it.
C20_CancelledRunLogged ==
    \A r \in Runs :
        (Killed(r) /\ Len(runs[r].steps) > 0) =>
            /\ \A st \in StepsOf(r) :
                   (st.upsertOk /\ Latest(r)) => StoredOf(st) # NoRow
            /\ \E i \in RowsSince(r) : pipeline_log[i].status \in {"partial", "error"}

\* --------------------------------------------- properties: the read API
\* the last request was a scoreboard request answered with a list
ScoreboardAnswered == api_resp # Null /\ api_resp.t = "scoreboard" /\ api_resp.status = 200

\* the ranks are 1..n in list order and the scores do not increase
RankedByScore(body) ==
    /\ \A i \in 1..Len(body) : body[i].rank = i
    /\ \A i, j \in 1..Len(body) :
           i < j => body[i].stress_score >= body[j].stress_score

\* entries of equal score are in ascending order of country id
TiesByCountryId(body) ==
    \A i, j \in 1..Len(body) :
        (i < j /\ body[i].stress_score = body[j].stress_score) =>
            body[i].country_id < body[j].country_id

\* C16: the scoreboard assigns the ranks 1..n with no gap and no repeat, by
\* stress score descending, and countries of equal score are ordered by
\* ascending country id, whatever order the store returns the countries in.
C16_RanksTiesById ==
    ScoreboardAnswered =>
        RankedByScore(api_resp.body) /\ TiesByCountryId(api_resp.body)

\* the newest scored date of a country at or before a date, 0 when none
NewestScoredDate(country_id, cutoff) ==
    LET ds == {d \in ScoredDates(metrics_daily, country_id) : d <= cutoff}
    IN  IF ds = {} THEN 0 ELSE CHOOSE x \in ds : \A y \in ds : y <= x

\* the delta the claim gives an entry for an offset in days
StatedDelta(e, days) ==
    LET d == NewestScoredDate(e.country_id, e.date - days)
    IN  IF d = 0 THEN Null
        ELSE Num(round1(e.stress_score
                        - metrics_daily[e.country_id, d]["stress_score"].v))

\* the entry is the country's newest scored row, with the stated deltas
DeltasAsStated(e) ==
    /\ e.date = NewestScoredDate(e.country_id, MaxApiDay)
    /\ e.stress_score = metrics_daily[e.country_id, e.date]["stress_score"].v
    /\ e.delta_7d = StatedDelta(e, Delta7)
    /\ e.delta_30d = StatedDelta(e, Delta30)

\* C17: for each country on the scoreboard, delta_7d (delta_30d) is the
\* latest stress score minus the score of the newest scored row dated at most
\* latest.date - 7 (- 30) days, rounded to one decimal, and it is null, not
\* zero, exactly when no such scored row exists.
C17_Deltas ==
    ScoreboardAnswered =>
        \A i \in 1..Len(api_resp.body) : DeltasAsStated(api_resp.body[i])

\* the last request was a history request answered with a list, by the
\* endpoint or by getCountryHistory
HistoryAnswered ==
    /\ api_resp # Null
    /\ \/ api_resp.t = "history" /\ api_resp.status = 200
       \/ api_resp.t = "getCountryHistory" /\ CountryOf(api_resp.code) # Null

\* the answer came from the endpoint
FromEndpoint == api_resp.t = "history"

\* the list is the newest min(HistoryLimit, n) scored rows of the country,
\* oldest first, each with its stored score and with the component scores of
\* its six raw metrics under the current params
HistoryAsStated(code, body) ==
    LET cid == CountryOf(code).id
        ds == ScoredDates(metrics_daily, cid)
    IN  /\ Len(body) = IF Cardinality(ds) < HistoryLimit THEN Cardinality(ds)
                       ELSE HistoryLimit
        /\ \A i \in 1..Len(body) :
            /\ body[i].date \in ds
            /\ \A d \in ds : d > body[i].date => \E j \in 1..Len(body) : body[j].date = d
            /\ body[i].stress_score = metrics_daily[cid, body[i].date]["stress_score"].v
            /\ \A m \in MetricNames :
                LET v == metrics_daily[cid, body[i].date][m]
                    p == normalization_params[cid][m]
                IN  body[i].components[m] =
                        IF v = Null \/ p = NoParam THEN Null
                        ELSE Num(RoundTenths(FracMul(Frac(100, 1),
                                 normalizeScore(v.v, p.min_val, p.max_val))))
        /\ \A i, j \in 1..Len(body) : i < j => body[i].date < body[j].date

\* C18: the per-country history returns min(30, number of scored rows)
\* entries, the most recent scored rows of the country, in strictly ascending
\* date order, each with the stored stress_score and with component scores
\* recomputed from the row's raw metrics and the current params.
C18_History ==
    HistoryAnswered => HistoryAsStated(api_resp.code, api_resp.body)

\* a builder has run
BuilderRan == nb_exit # <<>>

\* the stored row of (country, metric) has max_val > min_val
ValidRow(c, m) ==
    normalization_params[c][m] # NoParam
        => ~FracLe(normalization_params[c][m].max_val, normalization_params[c][m].min_val)

\* C19: after any run of the normalization builders, every row of
\* normalization_params has max_val > min_val.
C19_MaxAboveMin ==
    BuilderRan => \A c \in CountryIds, m \in MetricNames : ValidRow(c, m)

\* the scoring call has returned a result
ScoreReturned == sc_pc = "scored" /\ sc_result # Null

\* the metrics of the call that have a value and a param
AvailableSet == {m \in MetricNames : sc_metrics[m] # Null /\ sc_params[m] # NoParam}

RECURSIVE SumAdjusted(_, _)
SumAdjusted(ms, availableWeight) ==
    IF ms = {} THEN Frac(0, 1)
    ELSE LET m == CHOOSE x \in ms : TRUE
         IN  FracAdd(adjustedWeight(m, availableWeight),
                     SumAdjusted(ms \ {m}, availableWeight))

\* the normalized component of metric m of the call, times 100, rounded to
\* one decimal (in hundredths)
Component100(m) ==
    Round1(FracMul(Frac(100, 1),
        normalizeScore(sc_metrics[m].v, sc_params[m].min_val, sc_params[m].max_val)))

\* C21: for every call of computeStressScore that returns a score the
\* adjusted weights of the available metrics sum to 1; with all six metrics
\* available each adjusted weight is the canonical weight; with exactly one
\* metric available its adjusted weight is 1 and the score is 100 times its
\* normalized component (rounded to one decimal, as every score is).
C21_AdjustedWeights ==
    ScoreReturned =>
        /\ SumAdjusted(AvailableSet, sc_result.available_weight) = Frac(1, 1)
        /\ AvailableSet = MetricNames =>
              \A m \in MetricNames :
                  adjustedWeight(m, sc_result.available_weight)
                      = Reduce(Frac(WEIGHTS[m], 100))
        /\ \A m \in MetricNames :
              AvailableSet = {m} =>
                  /\ adjustedWeight(m, sc_result.available_weight) = Frac(1, 1)
                  /\ IsNum(sc_metrics[m]) =>
                        sc_result.stress_score = Num(Component100(m))

\* a call with inflation alone available, normalized strictly inside (0, 1)
C21_Witness ==
    /\ ScoreReturned
    /\ AvailableSet = {"inflation"}
    /\ sc_result.stress_score = Num(3000)
    /\ sc_result.available_weight = WEIGHTS["inflation"]

\* the date is the first day of a month (day 1 of the model)
FirstOfMonth(d) == d = 1

\* C22: in every per-country step of a run, the inflation, sovereign-yield
\* and reserves adapters are called if and only if the UTC day-of-month of
\* the run's date is 1; on every other day none of them is called and only
\* FX and the stablecoin premium are fetched in the loop.
C22_MonthlyGate ==
    \A r \in Runs : \A i \in 1..Len(runs[r].steps) :
        LET called == runs[r].steps[i].called
        IN  IF FirstOfMonth(runs[r].run_date)
            THEN MonthlyAdapters \subseteq called
            ELSE called \subseteq {"fx", "stablecoin"}

\* the dates the FX source may report during a run dated run_date
FxDatesFrom(run_date) == {LatestTradingDay(d) : d \in run_date..MaxDay}

\* the keys and the flag of run r: one step per country, each keyed by the
\* FX source's date, or by the run date when FX failed, and a monthly flag
\* that is the run date's
RunKeys(r) ==
    LET run == runs[r]
    IN  /\ \A i, j \in 1..Len(run.steps) :
              run.steps[i].country_id = run.steps[j].country_id => i = j
        /\ \A i \in 1..Len(run.steps) :
              IF "fx" \in run.steps[i].adapterFails
              THEN run.steps[i].date = run.run_date
              ELSE run.steps[i].date \in FxDatesFrom(run.run_date)
        /\ run.pc \in {"country", "log", "done"} /\ run.result = Null
              => (run.isMonthly <=> FirstOfMonth(run.run_date))

\* a row of metrics_daily changes only in a per-country step of some run, and
\* it is the row of that step's country and date
OnlyKeyedRowWritten ==
    \A k \in DOMAIN metrics_daily :
        metrics_daily'[k] # metrics_daily[k] =>
            \E r \in Runs :
                /\ Len(runs'[r].steps) = Len(runs[r].steps) + 1
                /\ LET st == runs'[r].steps[Len(runs'[r].steps)]
                   IN  k = <<st.country_id, st.date>>

\* C24: each run upserts at most one metrics_daily row per country, keyed by
\* (country, FX date) when FX succeeded and by (country, run date) when FX
\* failed; the run date, read once at the start, is the only today used for
\* the keys and for the monthly flag; the run writes no other row.
C24_OneKeyedRow ==
    /\ [](\A r \in Runs : RunKeys(r))
    /\ [][OnlyKeyedRowWritten]_vars

\* the columns a non-monthly run carries forward
CarriedColumns == {"inflation_yoy", "sovereign_yield", "reserves_level", "stablecoin_premium"}

\* the most recent stored non-null value of a column of a country, or Null
\* when no row of the country has one
LastStored(table, country_id, col) ==
    LET ds == {d \in Dates : table[country_id, d] # NoRow
                             /\ table[country_id, d][col] # Null}
    IN  IF ds = {} THEN Null
        ELSE table[country_id, CHOOSE d \in ds : \A e \in ds : e <= d][col]

\* run r takes a per-country step
StepTaken(r) == Len(runs'[r].steps) = Len(runs[r].steps) + 1
NewStep(r) == runs'[r].steps[Len(runs'[r].steps)]

\* the step of a non-monthly run holds, for each column of cols, the most
\* recent stored non-null value of that column
CarriesLastStored(r, cols) ==
    StepTaken(r) /\ ~runs[r].isMonthly =>
        \A col \in cols :
            NewStep(r).held[col] = LastStored(metrics_daily, NewStep(r).country_id, col)

\* C23: on a run where isMonthly is false, the values scored and upserted for
\* inflation_yoy, sovereign_yield, reserves_level and stablecoin_premium are
\* the most recent stored non-null value of that same column, each looked up
\* on its own; a column has no carried value only when the country has no
\* row with that column non-null.
C23_CarriedForward == [][\A r \in Runs : CarriesLastStored(r, CarriedColumns)]_vars

\* step st is a monthly step of a country with a primary (FRED) series in
\* which the sovereign adapter that was called returned null
PrimaryYieldFailed(st) ==
    /\ "sovereign" \in st.called
    /\ st.iso2 \in FRED_SOVEREIGN_SERIES
    /\ "sovereign" \in st.adapterFails

\* the missing list of the flags the step persisted
PersistedMissing(st) ==
    IF HasFlag(st.row["data_flags"], "missing")
    THEN {st.row["data_flags"]["missing"][i] :
             i \in 1..Len(st.row["data_flags"]["missing"])}
    ELSE {}

\* C25: on a monthly run, when the primary sovereign adapter returns null for
\* a country that has a primary series, the fallback adapter is tried, and
\* when no adapter gave a yield risk_spread is marked missing in the
\* country's flags.
C25_SovereignFallback ==
    \A r \in Runs : \A i \in 1..Len(runs[r].steps) :
        LET st == runs[r].steps[i]
        IN  PrimaryYieldFailed(st) =>
                /\ "fetchSovereignImf" \in st.called
                /\ "risk_spread" \in PersistedMissing(st)

\* the component score the spec states for metric m of a stored row: null
\* when the raw value is null or there is no param, else the normalized
\* value times 100, rounded to one decimal (in tenths)
StatedComponent(row, params, m) ==
    IF row[m] = Null \/ params[m] = NoParam THEN Null
    ELSE Num(RoundTenths(FracMul(Frac(100, 1),
             normalizeScore(row[m].v, params[m].min_val, params[m].max_val))))

\* the components of entry e are those of all six metrics of the country's
\* latest scored row
ComponentsOfSix(e) ==
    \A m \in MetricNames :
        e.components[m] =
            StatedComponent(metrics_daily[e.country_id, e.date],
                            normalization_params[e.country_id], m)

\* C26: for every scoreboard entry, the components map equals
\* computeComponentScores applied to all six metrics of the country's latest
\* scored row with the current params, as the history endpoint reports for
\* that row; a component is null exactly when the raw value is null or no
\* param exists.
C26_ScoreboardComponents ==
    ScoreboardAnswered =>
        \A i \in 1..Len(api_resp.body) : ComponentsOfSix(api_resp.body[i])

VolWindow == 30        \* rollingLogReturnStdDev: window = 30

\* the series the rule is stated on: the stored closes of the country dated
\* before date, oldest first, then today's close
SeriesWith(table, country_id, date, close) ==
    LET ds == DatesAsc({d \in NonNullDates(table, country_id, "fx_close") : d < date})
    IN  [i \in 1..Len(ds) |-> table[country_id, ds[i]]["fx_close"]] \o <<close>>

\* the step's fx_vol is null exactly when the kernel's entry for today is
FxVolGated(r) ==
    StepTaken(r) /\ IsNum(NewStep(r).held["fx_close"]) =>
        (NewStep(r).metrics["fx_vol"] = Null
            <=> rollingLogReturnStdDevIsNull(
                    SeriesWith(metrics_daily, NewStep(r).country_id, NewStep(r).date,
                               NewStep(r).held["fx_close"]),
                    VolWindow))

\* C27: the fx_vol the orchestrator computes for today follows the kernel's
\* gating on the series of the prior stored closes and today's close: null
\* when fewer than 30 prior observations exist or fewer than 80% of the 30
\* log returns are non-null, non-null otherwise.
C27_FxVolGating == [][\A r \in Runs : FxVolGated(r)]_vars

\* the step of run r joined today's close with the closes of the rows dated
\* RecentFxDates, read from the store as it was at the step
JoinedDates(r) ==
    LET ds == RecentFxDates(metrics_daily, NewStep(r).country_id)
    IN  {ds[i] : i \in 1..Len(ds)}

FxAnswered(st) == "fx" \notin st.adapterFails

\* C28: the series of prior closes the orchestrator joins with today's FX
\* close never contains the stored close of the row dated today's FX date.
C28_NoCloseTwice ==
    [][\A r \in Runs :
          StepTaken(r) /\ FxAnswered(NewStep(r)) /\ "recentFx" \notin NewStep(r).failed
              => NewStep(r).date \notin JoinedDates(r)]_vars

\* the scoreboard of the store as it is, every read succeeding
ScoreboardNow ==
    WithRanks(SortByScoreDesc(
        ScoreboardResults(metrics_daily, normalization_params, api_order, {})))

\* getCountrySnapshot has answered, every read succeeding
SnapshotAnswered ==
    /\ api_resp # Null
    /\ api_resp.t = "getCountrySnapshot"
    /\ api_resp.failed = "none"

\* the snapshot reports what the scoreboard reports for the country: no
\* snapshot when the scoreboard has no entry, else the same score, rank and
\* deltas
SnapshotAgrees(code, snapshot, board) ==
    IF \A i \in 1..Len(board) : board[i].iso2 # code
    THEN snapshot = Null
    ELSE /\ snapshot # Null
         /\ \A i \in 1..Len(board) :
               board[i].iso2 = code =>
                   /\ snapshot.stress_score = board[i].stress_score
                   /\ snapshot.rank = board[i].rank
                   /\ snapshot.delta_7d = board[i].delta_7d
                   /\ snapshot.delta_30d = board[i].delta_30d

\* C29: for the same store state and country, getCountrySnapshot reports the
\* same stress_score, rank, delta_7d and delta_30d as the scoreboard
\* endpoint, also when countries tie on the score, when the latest score is
\* 0, and when an unscored row lies between the latest row and the 7-day or
\* 30-day cutoff.
C29_SnapshotMatchesScoreboard ==
    SnapshotAnswered => SnapshotAgrees(api_resp.code, api_resp.body, ScoreboardNow)

\* the metrics the orchestrator pushed on its missing list in the step
MarkedMissing(st) == {st.missing[j] : j \in 1..Len(st.missing)}

\* C30: every metric the orchestrator marks missing in a run because its
\* adapter failed is in the missing list of the data_flags persisted for the
\* country's row in that run, also when the scoring engine emits its own
\* partial and missing flags.
C30_AdapterMissingPersisted ==
    \A r \in Runs : \A i \in 1..Len(runs[r].steps) :
        LET st == runs[r].steps[i]
        IN  st.upsertOk => MarkedMissing(st) \subseteq PersistedMissing(st)

====
